---- MODULE Spec2Model ----
(***************************************************************************)
(* Dependency discovery and resolution of semgrep's supply-chain engine:   *)
(*   - semdep/matchers/base.py, semdep/subproject_matchers.py and          *)
(*     semgrep/resolve_subprojects.py: the ordered matcher framework that  *)
(*     turns a set of candidate files into subprojects (SpecMatch);        *)
(*   - semgrep/resolve_dependency_source.py: the orchestrator that         *)
(*     resolves one dependency source statically or dynamically            *)
(*     (SpecResolve);                                                      *)
(*   - semgrep/resolve_subprojects.py: resolve_subprojects, which finds    *)
(*     the subprojects and resolves each of them (SpecSubprojects);        *)
(*   - semgrep/subproject.py: the construction and the print of a          *)
(*     dependency graph (SpecPrint, SpecPrintFair) and                     *)
(*     find_closest_subproject (SpecClosest);                              *)
(*   - semgrep/ignores.py: the ignore filter (SpecIgnore), the conversion  *)
(*     of one token (SpecToFnmatch), and the filter followed by the        *)
(*     matchers (SpecEndToEnd).                                            *)
(* A path is the sequence of its segments: <<"a", "pom.xml">> is           *)
(* a/pom.xml and <<>> is the directory the scan runs in.  An Optional      *)
(* value is a sequence of length 0 (None) or 1.                            *)
(***************************************************************************)
EXTENDS Integers, Sequences, FiniteSets, TLC

VARIABLES
  \* find_subprojects (resolve_subprojects.py:21-38)
  dependency_source_files,  \* the frozenset handed to find_subprojects
  used_files,               \* used_files
  unresolved_subprojects,   \* unresolved_subprojects, the list being built
  matcher_index,            \* position of the for loop in `matchers`
  calls,                    \* history: one record per make_subprojects call
  find_pc,                  \* "loop" | "done" | "idle"
  \* resolve_dependency_source (resolve_dependency_source.py:272-301)
  dep_source,               \* the dependency source being resolved
  enable_dynamic_resolution,
  prioritize_dependency_graph_generation,
  resolver,                 \* what the external resolver answers in this run
  parser_out,               \* what each lockfile parses to in this run
  pc,                       \* "call" | "lockfile" | "manifest_only" | "multi" | "done" | "raised" | "idle"
  ret,                      \* Optional: the DependencyResolutionResult returned
  rpc_calls,                \* history: the requests sent to resolve_dependencies
  parser_calls,             \* history: the <<lockfile, manifest>> pairs parsed
  multi_i,                  \* position of the for loop over dep_source.sources
  multi_acc,                \* the locals of _handle_multi_lockfile_source
  \* resolve_subprojects (resolve_subprojects.py:41-96)
  rs_pc,                    \* "run" | "done" | "raised" | "idle"
  rs_i,                     \* position of the for loop over found_subprojects
  dependency_targets,       \* dependency_targets
  resolved,                 \* resolved: ecosystem -> list of ResolvedSubproject
  unresolved,               \* unresolved
  resolutions,              \* history: what each resolve_dependency_source call returned
  \* ResolvedDependencies.pretty_print (subproject.py:190-257)
  gp_found_deps,            \* found_deps, the argument of from_found_dependencies
  gp_mapping,               \* _dependencies_by_package_version_pair, in insertion order
  gp_pc,                    \* "build" | "start" | "directs" | "done" | "raised" | "idle"
  gp_direct_i,              \* position of the for loop over directs
  gp_stack,                 \* the frames of pretty_print_dependency
  gp_already,               \* already_printed of the walk in progress
  gp_printed_in_graph,      \* printed_in_graph
  gp_out,                   \* the lines printed
  gp_expanded,              \* history: the keys whose children the walk in progress expanded
  \* the ignore filter (ignores.py)
  ig_fs,                    \* the file system: path -> [kind, lines]
  ig_stack,                 \* the Parser.parse calls in progress
  ig_parsed,                \* the patterns parsed so far
  ig_fnmatch,               \* FileIgnore.fnmatch_patterns
  ig_kept,                  \* FilteredFiles.kept
  ig_removed,               \* FilteredFiles.removed
  ig_pc,                    \* "parse" | "process" | "filter" | "done" | "syntax_error" | "recursion_error" | "idle"
  \* find_closest_subproject (subproject.py:374-400)
  fc_path,                  \* path
  fc_ecosystem,             \* ecosystem
  fc_candidates,            \* candidates
  fc_sorted,                \* sorted_candidates
  fc_i,                     \* position of the for loop over sorted_candidates
  fc_ret,                   \* Optional: the candidate returned
  fc_pc                     \* "call" | "loop" | "done" | "idle"

match_vars == <<dependency_source_files, used_files, unresolved_subprojects,
                matcher_index, calls, find_pc>>
resolve_vars == <<dep_source, enable_dynamic_resolution,
                  prioritize_dependency_graph_generation, resolver, parser_out,
                  pc, ret, rpc_calls, parser_calls, multi_i, multi_acc>>
pipeline_vars == <<rs_pc, rs_i, dependency_targets, resolved, unresolved, resolutions>>
\* the state of the stand-alone functions
graph_vars == <<gp_found_deps, gp_mapping, gp_pc, gp_direct_i, gp_stack, gp_already, gp_printed_in_graph,
                gp_out, gp_expanded>>
closest_vars == <<fc_path, fc_ecosystem, fc_candidates, fc_sorted, fc_i, fc_ret, fc_pc>>
ignore_vars == <<ig_fs, ig_stack, ig_parsed, ig_fnmatch, ig_kept, ig_removed, ig_pc>>
pure_vars == <<graph_vars, closest_vars, ignore_vars>>
vars == <<match_vars, resolve_vars, pipeline_vars, pure_vars>>

(***************************************************************************)
(* Bounds of the model.                                                    *)
(***************************************************************************)
\* the largest candidate file set handed to find_subprojects
MaxFiles == 3
\* the longest MultiLockfileDependencySource.sources
MaxNested == 2

(***************************************************************************)
(* Paths (pathlib.Path) and Optional values.                               *)
(***************************************************************************)
None == <<>>
Some(x) == <<x>>
IsNone(o) == Len(o) = 0
Get(o) == o[1]

\* Path.name
PathName(p) == IF Len(p) = 0 THEN "" ELSE p[Len(p)]
\* Path.parent (the parent of "." is ".")
PathParent(p) == IF Len(p) = 0 THEN <<>> ELSE SubSeq(p, 1, Len(p) - 1)
\* Path.__truediv__ with a plain file name
PathJoin(dir, name) == Append(dir, name)

SeqToSet(s) == {s[i] : i \in 1..Len(s)}
\* every enumeration without repetition of a finite set: the orders in which
\* Python may iterate a set of paths (hash order, randomised per process)
Orderings(S) == {o \in [1..Cardinality(S) -> S] : \A i, j \in 1..Cardinality(S) : o[i] = o[j] => i = j}

(***************************************************************************)
(* Dependency sources and subprojects (semgrep/subproject.py).             *)
(***************************************************************************)
\* out.Manifest(kind, path) and out.Lockfile(kind, path)
Manifest(kind, path) == [kind |-> kind, path |-> path]
Lockfile(kind, path) == [kind |-> kind, path |-> path]

ManifestOnlyDependencySource(manifest) ==
  [type |-> "ManifestOnly", manifest |-> Some(manifest), lockfile |-> None, sources |-> <<>>]
LockfileOnlyDependencySource(lockfile) ==
  [type |-> "LockfileOnly", manifest |-> None, lockfile |-> Some(lockfile), sources |-> <<>>]
ManifestLockfileDependencySource(manifest, lockfile) ==
  [type |-> "ManifestLockfile", manifest |-> Some(manifest), lockfile |-> Some(lockfile), sources |-> <<>>]
MultiLockfileDependencySource(sources) ==
  [type |-> "MultiLockfile", manifest |-> None, lockfile |-> None, sources |-> sources]

Subproject(root_dir, dependency_source) ==
  [root_dir |-> root_dir, dependency_source |-> dependency_source]

\* the manifest and lockfile paths a dependency source is built from
BackingFiles(src) ==
  {src.manifest[i].path : i \in 1..Len(src.manifest)} \cup {src.lockfile[i].path : i \in 1..Len(src.lockfile)}

(***************************************************************************)
(* The matchers (semdep/subproject_matchers.py, semdep/matchers/base.py).  *)
(***************************************************************************)
ExactLockfileManifestMatcher(lockfile_name, manifest_name, lockfile_kind, manifest_kind) ==
  [cls |-> "ExactLockfileManifestMatcher", lockfile_name |-> lockfile_name,
   manifest_name |-> manifest_name, lockfile_kind |-> lockfile_kind, manifest_kind |-> manifest_kind]
ExactManifestOnlyMatcher(manifest_kind, manifest_name) ==
  [cls |-> "ExactManifestOnlyMatcher", lockfile_name |-> "",
   manifest_name |-> manifest_name, lockfile_kind |-> "", manifest_kind |-> manifest_kind]

\* MATCHERS with the Maven manifest-only matcher registered before the Maven
\* pair matcher (entries 7 and 8 exchanged)
MATCHERS_ManifestOnlyFirst ==
  << ExactLockfileManifestMatcher("package-lock.json", "package.json", "NpmPackageLockJson", "PackageJson"),
     ExactLockfileManifestMatcher("yarn.lock", "package.json", "YarnLock", "PackageJson"),
     ExactLockfileManifestMatcher("pnpm-lock.yaml", "package.json", "PnpmLock", "PackageJson"),
     ExactLockfileManifestMatcher("Gemfile.lock", "Gemfile", "GemfileLock", "Gemfile"),
     ExactLockfileManifestMatcher("go.mod", "go.mod", "GoMod", "GoMod_"),
     ExactLockfileManifestMatcher("Cargo.lock", "Cargo.toml", "CargoLock", "CargoToml"),
     ExactManifestOnlyMatcher("PomXml", "pom.xml"),
     ExactLockfileManifestMatcher("maven_dep_tree.txt", "pom.xml", "MavenDepTree", "PomXml"),
     ExactLockfileManifestMatcher("composer.lock", "composer.json", "ComposerLock", "ComposerJson"),
     ExactLockfileManifestMatcher("packages.lock.json", "nuget.manifest.json", "NugetPackagesLockJson", "NugetManifestJson"),
     ExactLockfileManifestMatcher("pubspec.lock", "pubspec.yaml", "PubspecLock", "PubspecYaml"),
     ExactLockfileManifestMatcher("Package.resolved", "Package.swift", "SwiftPackageResolved", "PackageSwift"),
     ExactLockfileManifestMatcher("mix.lock", "mix.exs", "MixLock", "MixExs"),
     ExactLockfileManifestMatcher("Pipfile.lock", "Pipfile", "PipfileLock", "Pipfile"),
     ExactLockfileManifestMatcher("poetry.lock", "pyproject.toml", "PoetryLock", "PyprojectToml"),
     ExactLockfileManifestMatcher("uv.lock", "pyproject.toml", "UvLock", "PyprojectToml") >>

\* MATCHERS, in registration order.  PipRequirementsMatcher and GradleMatcher
\* (entries 1 and 10 of the list) are classes of semdep.matchers.pip_requirements
\* and semdep.matchers.gradle, which are not part of the source tree; no
\* candidate file name of the model is one of theirs.
MATCHERS ==
  << ExactLockfileManifestMatcher("package-lock.json", "package.json", "NpmPackageLockJson", "PackageJson"),
     ExactLockfileManifestMatcher("yarn.lock", "package.json", "YarnLock", "PackageJson"),
     ExactLockfileManifestMatcher("pnpm-lock.yaml", "package.json", "PnpmLock", "PackageJson"),
     ExactLockfileManifestMatcher("Gemfile.lock", "Gemfile", "GemfileLock", "Gemfile"),
     ExactLockfileManifestMatcher("go.mod", "go.mod", "GoMod", "GoMod_"),
     ExactLockfileManifestMatcher("Cargo.lock", "Cargo.toml", "CargoLock", "CargoToml"),
     ExactLockfileManifestMatcher("maven_dep_tree.txt", "pom.xml", "MavenDepTree", "PomXml"),
     ExactManifestOnlyMatcher("PomXml", "pom.xml"),
     ExactLockfileManifestMatcher("composer.lock", "composer.json", "ComposerLock", "ComposerJson"),
     ExactLockfileManifestMatcher("packages.lock.json", "nuget.manifest.json", "NugetPackagesLockJson", "NugetManifestJson"),
     ExactLockfileManifestMatcher("pubspec.lock", "pubspec.yaml", "PubspecLock", "PubspecYaml"),
     ExactLockfileManifestMatcher("Package.resolved", "Package.swift", "SwiftPackageResolved", "PackageSwift"),
     ExactLockfileManifestMatcher("mix.lock", "mix.exs", "MixLock", "MixExs"),
     ExactLockfileManifestMatcher("Pipfile.lock", "Pipfile", "PipfileLock", "Pipfile"),
     ExactLockfileManifestMatcher("poetry.lock", "pyproject.toml", "PoetryLock", "PyprojectToml"),
     ExactLockfileManifestMatcher("uv.lock", "pyproject.toml", "UvLock", "PyprojectToml") >>

IsPairMatcher(m) == m.cls = "ExactLockfileManifestMatcher"

\* ExactLockfileManifestMatcher._is_manifest_match / ExactManifestOnlyMatcher._is_manifest_match
IsManifestMatch(m, path) == PathName(path) = m.manifest_name
\* _get_subproject_root returning the file itself instead of its parent
GetSubprojectRoot_NoParent(manifest_path, lockfile_path) ==
  IF ~IsNone(manifest_path) THEN Get(manifest_path) ELSE lockfile_path
\* ExactLockfileManifestMatcher._get_subproject_root and
\* PatternLockfileMatcher._get_subproject_root (the same body): the argument
\* is the tuple (manifest_path or None, lockfile_path)
GetSubprojectRoot(manifest_path, lockfile_path) ==
  IF ~IsNone(manifest_path) THEN PathParent(Get(manifest_path)) ELSE PathParent(lockfile_path)

\* LockfileManifestMatcher._filter_manifest_lockfiles: (manifests, lockfiles)
FilterManifestLockfiles(m, dep_source_files) ==
  LET
      \* ExactLockfileManifestMatcher._is_lockfile_match
      IsLockfileMatch(m_, path) == PathName(path) = m_.lockfile_name
  IN
  [manifests |-> {p \in dep_source_files : IsManifestMatch(m, p)},
   lockfiles |-> {p \in dep_source_files : IsLockfileMatch(m, p)}]

\* the body of the loop of LockfileManifestMatcher.make_subprojects for one
\* lockfile: the subproject built and the manifest paired, if any
PairOne(m, lockfile_path, dep_source_files) ==
  LET
      \* ExactLockfileManifestMatcher._lockfile_to_manifest
      LockfileToManifest(m_, lockfile_path_, candidates) ==
        IF m_.manifest_name # ""
        THEN LET manifest_path == PathJoin(PathParent(lockfile_path_), m_.manifest_name)
             IN IF manifest_path \in candidates THEN Some(manifest_path) ELSE None
        ELSE None
      matching_manifest_path == LockfileToManifest(m, lockfile_path, dep_source_files)
      root_dir == GetSubprojectRoot(matching_manifest_path, lockfile_path)
      lockfile == Lockfile(m.lockfile_kind, lockfile_path)
      dep_source_ == IF ~IsNone(matching_manifest_path)
                     THEN ManifestLockfileDependencySource(
                            Manifest(m.manifest_kind, Get(matching_manifest_path)), lockfile)
                     ELSE LockfileOnlyDependencySource(lockfile)
  IN [subproject |-> Subproject(root_dir, dep_source_), paired |-> matching_manifest_path]

\* make_subprojects returning every manifest it recognises as consumed
PairMakeSubprojects_AllManifests(m, dep_source_files, order) ==
  LET built == [i \in 1..Len(order) |-> PairOne(m, order[i], dep_source_files)]
  IN [subprojects |-> [i \in 1..Len(order) |-> built[i].subproject],
      used |-> FilterManifestLockfiles(m, dep_source_files).manifests \cup SeqToSet(order)]
\* LockfileManifestMatcher.make_subprojects; `order` is the order in which the
\* set `lockfiles` is iterated
PairMakeSubprojects(m, dep_source_files, order) ==
  LET built == [i \in 1..Len(order) |-> PairOne(m, order[i], dep_source_files)]
      paired_manifests == UNION {SeqToSet(built[i].paired) : i \in 1..Len(order)}
  IN [subprojects |-> [i \in 1..Len(order) |-> built[i].subproject],
      used |-> paired_manifests \cup SeqToSet(order)]

\* ManifestOnlyMatcher._filter_matching_manifests
FilterMatchingManifests(m, dep_source_files) ==
  {p \in dep_source_files : IsManifestMatch(m, p)}

\* ManifestOnlyMatcher.make_subprojects; root_dir is
\* ExactManifestOnlyMatcher._get_subproject_root (manifest_path.parent)
ManifestOnlyMakeSubprojects(m, dep_source_files, order) ==
  [subprojects |-> [i \in 1..Len(order) |->
      Subproject(PathParent(order[i]),
                 ManifestOnlyDependencySource(Manifest(m.manifest_kind, order[i])))],
   used |-> FilterMatchingManifests(m, dep_source_files)]

(***************************************************************************)
(* find_subprojects (semgrep/resolve_subprojects.py).                      *)
(***************************************************************************)
\* the set handed to the next matcher, without the subtraction
RemainingFiles_NoSubtract(files, used) == files
\* dependency_source_files - used_files
RemainingFiles(files, used) == files \ used

\* used_files overwritten instead of accumulated
UsedAfter_Overwrite(used, new_used_files) == new_used_files
\* used_files |= new_used_files
UsedAfter(used, new_used_files) == used \cup new_used_files

\* the directories and file names candidate files are drawn from
Dirs == {<<>>, <<"a">>, <<"a", "b">>}
\* the candidate file sets of at most MaxFiles files
CandidateFileSets ==
  LET
      CandidateFiles ==
        LET
            FileNames ==
              {"package.json", "package-lock.json", "yarn.lock", "go.mod", "pom.xml", "maven_dep_tree.txt",
               "pyproject.toml", "poetry.lock", "uv.lock"}
        IN
                        {PathJoin(d, n) : d \in Dirs, n \in FileNames}
  IN  {SeqToSet(fs) : fs \in UNION {[1..n -> CandidateFiles] : n \in 0..MaxFiles}}

\* one iteration of the loop of find_subprojects: the call of make_subprojects
\* and the two updates after it
FindStep(result) ==
  /\ calls' = Append(calls, [matcher |-> matcher_index,
                             offered |-> RemainingFiles(dependency_source_files, used_files),
                             subprojects |-> result.subprojects,
                             used |-> result.used])
  /\ used_files' = UsedAfter(used_files, result.used)
  /\ unresolved_subprojects' = unresolved_subprojects \o result.subprojects
  /\ matcher_index' = matcher_index + 1
  /\ UNCHANGED <<dependency_source_files, find_pc>>

\* the loop body when the matcher is a LockfileManifestMatcher
PairMatcherStep ==
  /\ find_pc = "loop"
  /\ matcher_index <= Len(MATCHERS)
  /\ IsPairMatcher(MATCHERS[matcher_index])
  /\ LET m == MATCHERS[matcher_index]
         offered == RemainingFiles(dependency_source_files, used_files)
     IN \E order \in Orderings(FilterManifestLockfiles(m, offered).lockfiles) :
          FindStep(PairMakeSubprojects(m, offered, order))
  /\ UNCHANGED resolve_vars
  /\ UNCHANGED <<pipeline_vars, pure_vars>>

\* the loop body when the matcher is a ManifestOnlyMatcher
ManifestOnlyMatcherStep ==
  /\ find_pc = "loop"
  /\ matcher_index <= Len(MATCHERS)
  /\ ~IsPairMatcher(MATCHERS[matcher_index])
  /\ LET m == MATCHERS[matcher_index]
         offered == RemainingFiles(dependency_source_files, used_files)
     IN \E order \in Orderings(FilterMatchingManifests(m, offered)) :
          FindStep(ManifestOnlyMakeSubprojects(m, offered, order))
  /\ UNCHANGED resolve_vars
  /\ UNCHANGED <<pipeline_vars, pure_vars>>

\* return unresolved_subprojects
FindReturn ==
  /\ find_pc = "loop"
  /\ matcher_index > Len(MATCHERS)
  /\ find_pc' = "done"
  /\ UNCHANGED <<dependency_source_files, used_files, unresolved_subprojects, matcher_index, calls>>
  /\ UNCHANGED resolve_vars
  /\ UNCHANGED <<pipeline_vars, pure_vars>>

(***************************************************************************)
(* The registries of semgrep/resolve_dependency_source.py.                 *)
(***************************************************************************)
\* PARSERS_BY_LOCKFILE_KIND[kind] is not None
HasParser(kind) ==
  LET
      LockfileKinds ==
        {"PipfileLock", "PipRequirementsTxt", "PoetryLock", "UvLock", "NpmPackageLockJson",
         "YarnLock", "PnpmLock", "GemfileLock", "ComposerLock", "GoMod", "CargoLock",
         "MavenDepTree", "GradleLockfile", "NugetPackagesLockJson", "PubspecLock",
         "SwiftPackageResolved", "MixLock", "ConanLock"}
  IN  kind \in LockfileKinds \ {"UvLock", "ConanLock"}

\* ECOSYSTEM_BY_LOCKFILE_KIND[kind], an Optional
ECOSYSTEM_BY_LOCKFILE_KIND(kind) ==
  CASE kind \in {"PipfileLock", "PipRequirementsTxt", "PoetryLock", "UvLock"} -> Some("Pypi")
    [] kind \in {"NpmPackageLockJson", "YarnLock", "PnpmLock"} -> Some("Npm")
    [] kind = "GemfileLock" -> Some("Gem")
    [] kind = "ComposerLock" -> Some("Composer")
    [] kind = "GoMod" -> Some("Gomod")
    [] kind = "CargoLock" -> Some("Cargo")
    [] kind \in {"MavenDepTree", "GradleLockfile"} -> Some("Maven")
    [] kind = "NugetPackagesLockJson" -> Some("Nuget")
    [] kind = "PubspecLock" -> Some("Pub")
    [] kind = "SwiftPackageResolved" -> Some("SwiftPM")
    [] kind = "MixLock" -> Some("Mix")
    [] kind = "ConanLock" -> None

\* the allow-list with every manifest kind in it
DEPENDENCY_GRAPH_SUPPORTED_MANIFEST_KINDS_All ==
  {"PomXml", "BuildGradle", "PackageJson", "PyprojectToml"}
DEPENDENCY_GRAPH_SUPPORTED_MANIFEST_KINDS == {"PomXml", "BuildGradle"}

(***************************************************************************)
(* The two external collaborators: the resolver behind                     *)
(* semgrep.rpc_call.resolve_dependencies and the lockfile parsers.  What   *)
(* they answer in a run is part of the state (resolver, parser_out).       *)
(***************************************************************************)
\* a FoundDependency: the package and the file it was read from
FoundDependency(package, origin) == [package |-> package, origin |-> origin]

ResolutionOk(packages, errors) == [tag |-> "ResolutionOk", packages |-> packages, errors |-> errors]
ResolutionError(errors) == [tag |-> "ResolutionError", packages |-> <<>>, errors |-> errors]

\* what resolve_dependencies may return: None, or a list of results
ResolverAnswers ==
  { None,
    Some(<<>>),
    Some(<<ResolutionOk(<<"d1", "d2">>, <<>>)>>),
    Some(<<ResolutionOk(<<"d1">>, <<"partial">>)>>),
    Some(<<ResolutionError(<<"failed">>)>>),
    Some(<<ResolutionOk(<<"d1">>, <<>>), ResolutionError(<<"failed">>)>>),
    Some(<<ResolutionError(<<"failed">>), ResolutionOk(<<"d1">>, <<>>)>>) }

\* what a parser may return: (packages, parse errors)
ParserShapes ==
  { [packages |-> <<"s1", "s2">>, errors |-> <<>>],
    [packages |-> <<"s1">>, errors |-> <<"bad line">>],
    [packages |-> <<>>, errors |-> <<"bad file">>] }

\* resolve_dependencies([source.to_semgrep_output()]): the answer of this run,
\* its dependencies being those of the requested manifest
ResolveDependencies(src) ==
  IF IsNone(resolver) THEN None
  ELSE Some([i \in 1..Len(Get(resolver)) |->
         [tag |-> Get(resolver)[i].tag,
          deps |-> [j \in 1..Len(Get(resolver)[i].packages) |->
                      FoundDependency(Get(resolver)[i].packages[j], Get(src.manifest).path)],
          errors |-> Get(resolver)[i].errors]])

\* parser(lockfile_path, manifest_path): (resolved_deps, parse_errors)
Parse(lockfile_path, manifest_path) ==
  LET shape == parser_out[lockfile_path]
  IN [deps |-> [j \in 1..Len(shape.packages) |-> FoundDependency(shape.packages[j], lockfile_path)],
      errors |-> [j \in 1..Len(shape.errors) |->
                    [kind |-> "DependencyParserError", reason |-> shape.errors[j], path |-> lockfile_path]]]

(***************************************************************************)
(* resolve_dependency_source and its handlers.  An outcome is what a call  *)
(* returns (info, errors, targets), whether it raised instead, and the     *)
(* calls it made to the resolver (rpc) and to the parsers (parsed).        *)
(***************************************************************************)
Outcome(info, errors, targets, rpc, parsed) ==
  [raised |-> FALSE, info |-> info, errors |-> errors, targets |-> targets, rpc |-> rpc, parsed |-> parsed]
Raised(rpc, parsed) ==
  [raised |-> TRUE, info |-> None, errors |-> <<>>, targets |-> <<>>, rpc |-> rpc, parsed |-> parsed]

\* the resolved_info of a DependencyResolutionResult
ResolvedInfo(ecosystem, method, deps) == [ecosystem |-> ecosystem, method |-> method, deps |-> deps]

\* the list comprehension that wraps each error type with the manifest path
WrapErrors(errors, manifest_path) ==
  [i \in 1..Len(errors) |->
     [kind |-> "DependencyResolutionError", reason |-> errors[i], path |-> manifest_path]]

\* _resolve_dependencies_dynamically reporting an absent response as a
\* resolution error of the manifest
ResolveDependenciesDynamically_AbsentIsError(src) ==
  LET response == ResolveDependencies(src)
      manifest_path == Get(src.manifest).path
  IN IF IsNone(response)
     THEN Outcome(None, WrapErrors(<<"no response">>, manifest_path), <<>>, <<src>>, <<>>)
     ELSE IF Len(Get(response)) = 0 THEN Raised(<<src>>, <<>>)
     ELSE LET result == Get(response)[1]
          IN IF result.tag = "ResolutionOk"
             THEN Outcome(Some([ecosystem |-> "Maven", deps |-> result.deps]),
                          WrapErrors(result.errors, manifest_path),
                          <<manifest_path>>, <<src>>, <<>>)
             ELSE Outcome(None, WrapErrors(result.errors, manifest_path), <<>>, <<src>>, <<>>)
\* _resolve_dependencies_dynamically reading the last response instead of
\* the first
ResolveDependenciesDynamically_LastResponse(src) ==
  LET response == ResolveDependencies(src)
      manifest_path == Get(src.manifest).path
  IN IF IsNone(response) THEN Outcome(None, <<>>, <<>>, <<src>>, <<>>)
     ELSE IF Len(Get(response)) = 0 THEN Raised(<<src>>, <<>>)
     ELSE LET result == Get(response)[Len(Get(response))]
          IN IF result.tag = "ResolutionOk"
             THEN Outcome(Some([ecosystem |-> "Maven", deps |-> result.deps]),
                          WrapErrors(result.errors, manifest_path),
                          <<manifest_path>>, <<src>>, <<>>)
             ELSE Outcome(None, WrapErrors(result.errors, manifest_path), <<>>, <<src>>, <<>>)
\* _resolve_dependencies_dynamically: info is Optional (ecosystem, deps)
ResolveDependenciesDynamically(src) ==
  LET response == ResolveDependencies(src)
      manifest_path == Get(src.manifest).path
  IN IF IsNone(response) THEN Outcome(None, <<>>, <<>>, <<src>>, <<>>)
     ELSE IF Len(Get(response)) = 0 THEN Raised(<<src>>, <<>>)   \* response[0]: IndexError
     ELSE LET result == Get(response)[1]
          IN IF result.tag = "ResolutionOk"
             THEN Outcome(Some([ecosystem |-> "Maven", deps |-> result.deps]),
                          WrapErrors(result.errors, manifest_path),
                          <<manifest_path>>, <<src>>, <<>>)
             ELSE Outcome(None, WrapErrors(result.errors, manifest_path), <<>>, <<src>>, <<>>)

\* _handle_manifest_only_source
HandleManifestOnlySource(src) ==
  LET dyn == ResolveDependenciesDynamically(src)
  IN IF dyn.raised THEN dyn
     ELSE IF IsNone(dyn.info) THEN Outcome(None, dyn.errors, dyn.targets, dyn.rpc, <<>>)
     ELSE Outcome(Some(ResolvedInfo(Get(dyn.info).ecosystem, "DYNAMIC", Get(dyn.info).deps)),
                  dyn.errors, dyn.targets, dyn.rpc, <<>>)

\* the condition of the `if` of _handle_lockfile_source, without the allow-list
AttemptsDynamic_NoAllowList(src, enable, prioritize) ==
  enable /\ prioritize /\ src.type = "ManifestLockfile"
\* the condition of the `if` of _handle_lockfile_source (lines 231-236)
AttemptsDynamic(src, enable, prioritize) ==
  /\ enable
  /\ prioritize
  /\ src.type = "ManifestLockfile"
  /\ Get(src.manifest).kind \in DEPENDENCY_GRAPH_SUPPORTED_MANIFEST_KINDS

\* the static part of _handle_lockfile_source (lines 252-269); rpc is the
\* request already sent by a failed dynamic attempt, if any
ParseLockfile(src, rpc) ==
  LET lockfile_path == Get(src.lockfile).path
      kind == Get(src.lockfile).kind
      ecosystem == ECOSYSTEM_BY_LOCKFILE_KIND(kind)
      manifest_path == IF src.type = "ManifestLockfile" THEN Some(Get(src.manifest).path) ELSE None
  IN IF ~HasParser(kind) \/ IsNone(ecosystem)
     THEN Outcome(None, <<>>, <<>>, rpc, <<>>)
     ELSE LET parsed == Parse(lockfile_path, manifest_path)
          IN Outcome(Some(ResolvedInfo(Get(ecosystem), "LOCKFILE_PARSING", parsed.deps)),
                     parsed.errors, <<lockfile_path>>, rpc, << <<lockfile_path, manifest_path>> >>)

\* a successful dynamic result with the static parse merged into it instead of
\* being returned on its own
DynamicSuccess_Merged(src, dyn) ==
  LET static == ParseLockfile(src, dyn.rpc)
  IN Outcome(Some(ResolvedInfo(Get(dyn.info).ecosystem, "DYNAMIC",
                               Get(dyn.info).deps \o (IF IsNone(static.info) THEN <<>> ELSE Get(static.info).deps))),
             dyn.errors \o static.errors, dyn.targets \o static.targets, dyn.rpc, static.parsed)
\* the return of lines 243-250: the dynamic result alone
DynamicSuccess(src, dyn) ==
  Outcome(Some(ResolvedInfo(Get(dyn.info).ecosystem, "DYNAMIC", Get(dyn.info).deps)),
          dyn.errors, dyn.targets, dyn.rpc, <<>>)

\* _handle_lockfile_source returning the outcome of a failed dynamic attempt
\* instead of falling back to the parser
HandleLockfileSource_NoFallback(src, enable, prioritize) ==
  IF AttemptsDynamic(src, enable, prioritize)
  THEN LET dyn == ResolveDependenciesDynamically(src)
       IN IF dyn.raised THEN dyn
          ELSE IF ~IsNone(dyn.info) THEN DynamicSuccess(src, dyn)
          ELSE Outcome(None, dyn.errors, dyn.targets, dyn.rpc, <<>>)
  ELSE ParseLockfile(src, <<>>)
\* _handle_lockfile_source
HandleLockfileSource(src, enable, prioritize) ==
  IF AttemptsDynamic(src, enable, prioritize)
  THEN LET dyn == ResolveDependenciesDynamically(src)
       IN IF dyn.raised THEN dyn
          ELSE IF ~IsNone(dyn.info) THEN DynamicSuccess(src, dyn)
          ELSE ParseLockfile(src, dyn.rpc)
  ELSE ParseLockfile(src, <<>>)

\* the locals of _handle_multi_lockfile_source before its loop
MultiStart ==
  [all_resolved_deps |-> <<>>, all_parse_errors |-> <<>>, all_dep_targets |-> <<>>,
   resolution_methods |-> {}, ecosystem |-> None, rpc |-> <<>>, parsed |-> <<>>, raised |-> FALSE]

\* the loop body keeping the ecosystem of the first nested result
MultiAccumulate_FirstEcosystem(acc, new) ==
  IF new.raised THEN [acc EXCEPT !.raised = TRUE, !.rpc = @ \o new.rpc, !.parsed = @ \o new.parsed]
  ELSE [all_resolved_deps |-> IF IsNone(new.info) THEN acc.all_resolved_deps
                              ELSE acc.all_resolved_deps \o Get(new.info).deps,
        all_parse_errors |-> acc.all_parse_errors \o new.errors,
        all_dep_targets |-> acc.all_dep_targets \o new.targets,
        resolution_methods |-> IF IsNone(new.info) THEN acc.resolution_methods
                               ELSE acc.resolution_methods \cup {Get(new.info).method},
        ecosystem |-> IF IsNone(new.info) \/ ~IsNone(acc.ecosystem) THEN acc.ecosystem
                      ELSE Some(Get(new.info).ecosystem),
        rpc |-> acc.rpc \o new.rpc, parsed |-> acc.parsed \o new.parsed, raised |-> FALSE]
\* the loop body putting the new errors and targets in front of the lists
MultiAccumulate_Prepend(acc, new) ==
  IF new.raised THEN [acc EXCEPT !.raised = TRUE, !.rpc = @ \o new.rpc, !.parsed = @ \o new.parsed]
  ELSE [all_resolved_deps |-> IF IsNone(new.info) THEN acc.all_resolved_deps
                              ELSE acc.all_resolved_deps \o Get(new.info).deps,
        all_parse_errors |-> new.errors \o acc.all_parse_errors,
        all_dep_targets |-> new.targets \o acc.all_dep_targets,
        resolution_methods |-> IF IsNone(new.info) THEN acc.resolution_methods
                               ELSE acc.resolution_methods \cup {Get(new.info).method},
        ecosystem |-> IF IsNone(new.info) THEN acc.ecosystem ELSE Some(Get(new.info).ecosystem),
        rpc |-> acc.rpc \o new.rpc, parsed |-> acc.parsed \o new.parsed, raised |-> FALSE]
\* the body of the loop of _handle_multi_lockfile_source, `new` being what
\* resolve_dependency_source(lockfile_source) returned
MultiAccumulate(acc, new) ==
  IF new.raised THEN [acc EXCEPT !.raised = TRUE, !.rpc = @ \o new.rpc, !.parsed = @ \o new.parsed]
  ELSE [all_resolved_deps |-> IF IsNone(new.info) THEN acc.all_resolved_deps
                              ELSE acc.all_resolved_deps \o Get(new.info).deps,
        all_parse_errors |-> acc.all_parse_errors \o new.errors,
        all_dep_targets |-> acc.all_dep_targets \o new.targets,
        resolution_methods |-> IF IsNone(new.info) THEN acc.resolution_methods
                               ELSE acc.resolution_methods \cup {Get(new.info).method},
        ecosystem |-> IF IsNone(new.info) THEN acc.ecosystem ELSE Some(Get(new.info).ecosystem),
        rpc |-> acc.rpc \o new.rpc, parsed |-> acc.parsed \o new.parsed, raised |-> FALSE]

\* the end of _handle_multi_lockfile_source (lines 204-218)
MultiReturnValue(acc) ==
  IF IsNone(acc.ecosystem)
  THEN Outcome(None, acc.all_parse_errors, acc.all_dep_targets, acc.rpc, acc.parsed)
  ELSE Outcome(Some(ResolvedInfo(Get(acc.ecosystem),
                                 IF "DYNAMIC" \in acc.resolution_methods THEN "DYNAMIC" ELSE "LOCKFILE_PARSING",
                                 acc.all_resolved_deps)),
               acc.all_parse_errors, acc.all_dep_targets, acc.rpc, acc.parsed)

\* the branch taken by resolve_dependency_source, with a ManifestOnly source
\* sent to its handler whatever enable_dynamic_resolution is
Dispatch_IgnoreEnable(src, enable) ==
  IF src.type \in {"LockfileOnly", "ManifestLockfile"} THEN "lockfile"
  ELSE IF src.type = "MultiLockfile" THEN "multi"
  ELSE IF src.type = "ManifestOnly" THEN "manifest_only"
  ELSE "unsupported"
\* the branch taken by resolve_dependency_source (the isinstance chain of
\* lines 284-301)
Dispatch(src, enable) ==
  IF src.type \in {"LockfileOnly", "ManifestLockfile"} THEN "lockfile"
  ELSE IF src.type = "MultiLockfile" THEN "multi"
  ELSE IF src.type = "ManifestOnly" /\ enable THEN "manifest_only"
  ELSE "unsupported"

\* resolve_dependency_source for a source that is not a MultiLockfile one
ResolveSingle(src, enable, prioritize) ==
  CASE Dispatch(src, enable) = "lockfile" -> HandleLockfileSource(src, enable, prioritize)
    [] Dispatch(src, enable) = "manifest_only" -> HandleManifestOnlySource(src)
    [] OTHER -> Outcome(None, <<>>, <<>>, <<>>, <<>>)

\* the recursive call of line 194 with the caller's flags passed on
ResolveNested_WithFlags(lockfile_source) ==
  ResolveSingle(lockfile_source, enable_dynamic_resolution, prioritize_dependency_graph_generation)
\* the recursive call of line 194: resolve_dependency_source(lockfile_source),
\* so with the defaults of lines 274-275
ResolveNested(lockfile_source) == ResolveSingle(lockfile_source, TRUE, FALSE)

(***************************************************************************)
(* The dependency sources resolve_dependency_source is called with: the    *)
(* sources the matchers build for Maven, npm and uv files in the scanned   *)
(* directory, and MultiLockfile sources over the lockfile-based ones.      *)
(***************************************************************************)
LockfileSources ==
  LET
      ResolvedMatchers ==
        LET
            ResolvedLockfileNames == {"maven_dep_tree.txt", "package-lock.json", "uv.lock"}
        IN
        {MATCHERS[i] : i \in {j \in 1..Len(MATCHERS) : MATCHERS[j].lockfile_name \in ResolvedLockfileNames}}
  IN
  UNION {{PairOne(m, <<m.lockfile_name>>, {<<m.lockfile_name>>, <<m.manifest_name>>}).subproject.dependency_source,
          PairOne(m, <<m.lockfile_name>>, {<<m.lockfile_name>>}).subproject.dependency_source}
         : m \in ResolvedMatchers}
DependencySources ==
  LET
      MultiSources ==
        {MultiLockfileDependencySource(ss) : ss \in UNION {[1..n -> LockfileSources] : n \in 1..MaxNested}}
      ManifestOnlySources ==
        {ManifestOnlyMakeSubprojects(MATCHERS[i], {<<MATCHERS[i].manifest_name>>},
                                     <<(<<MATCHERS[i].manifest_name>>)>>).subprojects[1].dependency_source
           : i \in {j \in 1..Len(MATCHERS) : ~IsPairMatcher(MATCHERS[j])}}
  IN  LockfileSources \cup ManifestOnlySources \cup MultiSources

\* the lockfiles some parser is registered for
ParsedLockfilePaths ==
  {Get(src.lockfile).path : src \in {x \in LockfileSources : HasParser(Get(x.lockfile).kind)}}

(***************************************************************************)
(* Actions of resolve_dependency_source.                                   *)
(***************************************************************************)
Return(outcome) ==
  /\ ret' = IF outcome.raised THEN None
            ELSE Some([info |-> outcome.info, errors |-> outcome.errors, targets |-> outcome.targets])
  /\ pc' = IF outcome.raised THEN "raised" ELSE "done"
  /\ rpc_calls' = outcome.rpc
  /\ parser_calls' = outcome.parsed

resolve_inputs == <<dep_source, enable_dynamic_resolution, prioritize_dependency_graph_generation,
                    resolver, parser_out>>

\* lines 284-291: a lockfile-based source goes to _handle_lockfile_source
CallLockfileSource ==
  /\ pc = "call"
  /\ Dispatch(dep_source, enable_dynamic_resolution) = "lockfile"
  /\ pc' = "lockfile"
  /\ UNCHANGED <<resolve_inputs, ret, rpc_calls, parser_calls, multi_i, multi_acc>>
  /\ UNCHANGED match_vars
  /\ UNCHANGED <<pipeline_vars, pure_vars>>

\* lines 292-293: a MultiLockfile source goes to _handle_multi_lockfile_source
CallMultiLockfileSource ==
  /\ pc = "call"
  /\ Dispatch(dep_source, enable_dynamic_resolution) = "multi"
  /\ pc' = "multi"
  /\ multi_i' = 1
  /\ multi_acc' = MultiStart
  /\ UNCHANGED <<resolve_inputs, ret, rpc_calls, parser_calls>>
  /\ UNCHANGED match_vars
  /\ UNCHANGED <<pipeline_vars, pure_vars>>

\* lines 294-298: a ManifestOnly source goes to _handle_manifest_only_source
\* when dynamic resolution is enabled
CallManifestOnlySource ==
  /\ pc = "call"
  /\ Dispatch(dep_source, enable_dynamic_resolution) = "manifest_only"
  /\ pc' = "manifest_only"
  /\ UNCHANGED <<resolve_inputs, ret, rpc_calls, parser_calls, multi_i, multi_acc>>
  /\ UNCHANGED match_vars
  /\ UNCHANGED <<pipeline_vars, pure_vars>>

\* lines 299-301: anything else returns (None, [], [])
CallUnsupported ==
  /\ pc = "call"
  /\ Dispatch(dep_source, enable_dynamic_resolution) = "unsupported"
  /\ Return(ResolveSingle(dep_source, enable_dynamic_resolution, prioritize_dependency_graph_generation))
  /\ UNCHANGED <<resolve_inputs, multi_i, multi_acc>>
  /\ UNCHANGED match_vars
  /\ UNCHANGED <<pipeline_vars, pure_vars>>

\* _handle_lockfile_source
LockfileSourceStep ==
  /\ pc = "lockfile"
  /\ Return(HandleLockfileSource(dep_source, enable_dynamic_resolution,
                                 prioritize_dependency_graph_generation))
  /\ UNCHANGED <<resolve_inputs, multi_i, multi_acc>>
  /\ UNCHANGED match_vars
  /\ UNCHANGED <<pipeline_vars, pure_vars>>

\* _handle_manifest_only_source
ManifestOnlySourceStep ==
  /\ pc = "manifest_only"
  /\ Return(HandleManifestOnlySource(dep_source))
  /\ UNCHANGED <<resolve_inputs, multi_i, multi_acc>>
  /\ UNCHANGED match_vars
  /\ UNCHANGED <<pipeline_vars, pure_vars>>

\* one iteration of the loop of _handle_multi_lockfile_source
MultiLoopStep ==
  /\ pc = "multi"
  /\ multi_i <= Len(dep_source.sources)
  /\ LET acc == MultiAccumulate(multi_acc, ResolveNested(dep_source.sources[multi_i]))
     IN /\ multi_acc' = acc
        /\ rpc_calls' = acc.rpc
        /\ parser_calls' = acc.parsed
        /\ pc' = IF acc.raised THEN "raised" ELSE "multi"
  /\ multi_i' = multi_i + 1
  /\ UNCHANGED <<resolve_inputs, ret>>
  /\ UNCHANGED match_vars
  /\ UNCHANGED <<pipeline_vars, pure_vars>>

\* the end of _handle_multi_lockfile_source
MultiReturn ==
  /\ pc = "multi"
  /\ multi_i > Len(dep_source.sources)
  /\ Return(MultiReturnValue(multi_acc))
  /\ UNCHANGED <<resolve_inputs, multi_i, multi_acc>>
  /\ UNCHANGED match_vars
  /\ UNCHANGED <<pipeline_vars, pure_vars>>

(***************************************************************************)
(* The two specifications.                                                 *)
(***************************************************************************)
\* the variables of the parts that a specification does not enter keep the
\* values they have before any call
Idle(parts) ==
  /\ IF "match" \in parts
     THEN /\ dependency_source_files = {}
          /\ used_files = {}
          /\ unresolved_subprojects = <<>>
          /\ matcher_index = 1
          /\ calls = <<>>
          /\ find_pc = "idle"
     ELSE TRUE
  /\ IF "resolve" \in parts
     THEN /\ dep_source = MultiLockfileDependencySource(<<>>)
          /\ enable_dynamic_resolution = FALSE
          /\ prioritize_dependency_graph_generation = FALSE
          /\ resolver = None
          /\ parser_out = <<>>
          /\ pc = "idle"
          /\ ret = None
          /\ rpc_calls = <<>>
          /\ parser_calls = <<>>
          /\ multi_i = 1
          /\ multi_acc = MultiStart
     ELSE TRUE
  /\ IF "pipeline" \in parts
     THEN /\ rs_pc = "idle"
          /\ rs_i = 1
          /\ dependency_targets = <<>>
          /\ resolved = <<>>
          /\ unresolved = <<>>
          /\ resolutions = <<>>
     ELSE TRUE
  /\ IF "graph" \in parts
     THEN /\ gp_found_deps = <<>>
          /\ gp_mapping = <<>>
          /\ gp_pc = "idle"
          /\ gp_direct_i = 1
          /\ gp_stack = <<>>
          /\ gp_already = {}
          /\ gp_printed_in_graph = {}
          /\ gp_out = <<>>
          /\ gp_expanded = <<>>
     ELSE TRUE
  /\ IF "closest" \in parts
     THEN /\ fc_path = <<>>
          /\ fc_ecosystem = "Npm"
          /\ fc_candidates = <<>>
          /\ fc_sorted = <<>>
          /\ fc_i = 1
          /\ fc_ret = None
          /\ fc_pc = "idle"
     ELSE TRUE
  /\ IF "ignore" \in parts
     THEN /\ ig_fs = <<>>
          /\ ig_stack = <<>>
          /\ ig_parsed = {}
          /\ ig_fnmatch = {}
          /\ ig_kept = {}
          /\ ig_removed = {}
          /\ ig_pc = "idle"
     ELSE TRUE

\* find_subprojects(dependency_source_files, MATCHERS) is entered
InitMatch ==
  /\ dependency_source_files \in CandidateFileSets
  /\ used_files = {}
  /\ unresolved_subprojects = <<>>
  /\ matcher_index = 1
  /\ calls = <<>>
  /\ find_pc = "loop"
  /\ Idle({"resolve", "pipeline", "graph", "closest", "ignore"})

NextMatch == PairMatcherStep \/ ManifestOnlyMatcherStep \/ FindReturn

SpecMatch == InitMatch /\ [][NextMatch]_vars

\* resolve_dependency_source(dep_source, enable_dynamic_resolution,
\* prioritize_dependency_graph_generation) is entered
InitResolve ==
  /\ dep_source \in DependencySources
  /\ enable_dynamic_resolution \in BOOLEAN
  /\ prioritize_dependency_graph_generation \in BOOLEAN
  /\ resolver \in ResolverAnswers
  /\ parser_out \in [ParsedLockfilePaths -> ParserShapes]
  /\ pc = "call"
  /\ ret = None
  /\ rpc_calls = <<>>
  /\ parser_calls = <<>>
  /\ multi_i = 1
  /\ multi_acc = MultiStart
  /\ Idle({"match", "pipeline", "graph", "closest", "ignore"})

NextResolve ==
  \/ CallLockfileSource
  \/ CallMultiLockfileSource
  \/ CallManifestOnlySource
  \/ CallUnsupported
  \/ LockfileSourceStep
  \/ ManifestOnlySourceStep
  \/ MultiLoopStep
  \/ MultiReturn

SpecResolve == InitResolve /\ [][NextResolve]_vars

(***************************************************************************)
(* resolve_subprojects: find_subprojects over the dependency source files  *)
(* of the scan, then one resolve_dependency_source call per subproject     *)
(* found, with the flags of the run (SpecSubprojects).  The resolver and   *)
(* the parser answer each call on their own.                               *)
(***************************************************************************)
\* what resolve_dependency_source returned
Returned == Get(ret)

\* the most dependency source files the target manager hands over
MaxSourceFiles == 3

\* get_all_dependency_source_files(): what the target manager may return
SourceFileSets ==
  LET
      SourceFiles ==
        LET
            SourceFileNames == {"pom.xml", "maven_dep_tree.txt", "package-lock.json", "uv.lock"}
            SourceDirs == {<<>>, <<"a">>}
        IN
                     {PathJoin(d, n) : d \in SourceDirs, n \in SourceFileNames}
  IN
  {SeqToSet(fs) : fs \in UNION {[1..n -> SourceFiles] : n \in 0..MaxSourceFiles}}

\* an UnresolvedSubproject built without the errors it is given
UnresolvedSubproject_NoErrors(base, resolution_errors) ==
  [root_dir |-> base.root_dir, dependency_source |-> base.dependency_source,
   resolution_errors |-> <<>>]
\* UnresolvedSubproject.from_subproject
UnresolvedSubproject(base, resolution_errors) ==
  [root_dir |-> base.root_dir, dependency_source |-> base.dependency_source,
   resolution_errors |-> resolution_errors]

\* ResolvedSubproject.from_unresolved
ResolvedSubproject(base, resolution_method, resolution_errors, found_dependencies, ecosystem) ==
  [root_dir |-> base.root_dir, dependency_source |-> base.dependency_source,
   resolution_errors |-> resolution_errors, ecosystem |-> ecosystem,
   found_dependencies |-> found_dependencies, resolution_method |-> resolution_method]

\* lines 89-91 filing every subproject under one key
AddResolved_OneKey(map, ecosystem, subproject) ==
  [e \in {"Maven"} |-> IF "Maven" \in DOMAIN map THEN Append(map["Maven"], subproject) ELSE <<subproject>>]
\* lines 89-91: resolved[ecosystem].append(resolved_subproject)
AddResolved(map, ecosystem, subproject) ==
  [e \in DOMAIN map \cup {ecosystem} |->
     IF e = ecosystem
     THEN (IF e \in DOMAIN map THEN Append(map[e], subproject) ELSE <<subproject>>)
     ELSE map[e]]

\* the lockfiles a call may have parsed: the one of the source, if a parser
\* is registered for its kind
CallParserPaths(src) ==
  IF src.type \in {"LockfileOnly", "ManifestLockfile"} /\ HasParser(Get(src.lockfile).kind)
  THEN {Get(src.lockfile).path} ELSE {}

\* line 75: resolve_dependency_source is called for the next subproject
CallResolveDependencySource ==
  /\ rs_pc = "run"
  /\ find_pc = "done"
  /\ pc = "idle"
  /\ rs_i <= Len(unresolved_subprojects)
  /\ dep_source' = unresolved_subprojects[rs_i].dependency_source
  /\ resolver' \in ResolverAnswers
  /\ parser_out' \in [CallParserPaths(unresolved_subprojects[rs_i].dependency_source) -> ParserShapes]
  /\ pc' = "call"
  /\ UNCHANGED <<enable_dynamic_resolution, prioritize_dependency_graph_generation,
                 ret, rpc_calls, parser_calls, multi_i, multi_acc>>
  /\ UNCHANGED <<match_vars, pipeline_vars, pure_vars>>

\* lines 75-94: the call has returned and its result is filed
FileResolution ==
  /\ rs_pc = "run"
  /\ pc = "done"
  /\ LET to_resolve == unresolved_subprojects[rs_i]
         resolved_info == Returned.info
         errors == Returned.errors
         targets == Returned.targets
     IN /\ dependency_targets' = dependency_targets \o targets
        /\ IF ~IsNone(resolved_info)
           THEN /\ resolved' = AddResolved(resolved, Get(resolved_info).ecosystem,
                                           ResolvedSubproject(to_resolve, Get(resolved_info).method, errors,
                                                              Get(resolved_info).deps, Get(resolved_info).ecosystem))
                /\ UNCHANGED unresolved
           ELSE /\ unresolved' = Append(unresolved, UnresolvedSubproject(to_resolve, errors))
                /\ UNCHANGED resolved
        /\ resolutions' = Append(resolutions, [subproject |-> to_resolve, result |-> Returned])
  /\ rs_i' = rs_i + 1
  /\ pc' = "idle"
  /\ dep_source' = MultiLockfileDependencySource(<<>>)
  /\ resolver' = None
  /\ parser_out' = <<>>
  /\ ret' = None
  /\ rpc_calls' = <<>>
  /\ parser_calls' = <<>>
  /\ UNCHANGED <<enable_dynamic_resolution, prioritize_dependency_graph_generation, multi_i, multi_acc>>
  /\ UNCHANGED rs_pc
  /\ UNCHANGED <<match_vars, pure_vars>>

\* an exception raised inside the call leaves resolve_subprojects, which has
\* no handler for it
ResolutionRaises ==
  /\ rs_pc = "run"
  /\ pc = "raised"
  /\ rs_pc' = "raised"
  /\ UNCHANGED <<rs_i, dependency_targets, resolved, unresolved, resolutions>>
  /\ UNCHANGED <<match_vars, resolve_vars, pure_vars>>

\* line 96
ResolveSubprojectsReturn ==
  /\ rs_pc = "run"
  /\ find_pc = "done"
  /\ pc = "idle"
  /\ rs_i > Len(unresolved_subprojects)
  /\ rs_pc' = "done"
  /\ UNCHANGED <<rs_i, dependency_targets, resolved, unresolved, resolutions>>
  /\ UNCHANGED <<match_vars, resolve_vars, pure_vars>>

\* resolve_subprojects(target_manager, allow_dynamic_resolution,
\* prioritize_dependency_graph_generation) is entered
InitSubprojects ==
  /\ dependency_source_files \in SourceFileSets
  /\ used_files = {}
  /\ unresolved_subprojects = <<>>
  /\ matcher_index = 1
  /\ calls = <<>>
  /\ find_pc = "loop"
  /\ dep_source = MultiLockfileDependencySource(<<>>)
  /\ enable_dynamic_resolution \in BOOLEAN
  /\ prioritize_dependency_graph_generation \in BOOLEAN
  /\ resolver = None
  /\ parser_out = <<>>
  /\ pc = "idle"
  /\ ret = None
  /\ rpc_calls = <<>>
  /\ parser_calls = <<>>
  /\ multi_i = 1
  /\ multi_acc = MultiStart
  /\ rs_pc = "run"
  /\ rs_i = 1
  /\ dependency_targets = <<>>
  /\ resolved = <<>>
  /\ unresolved = <<>>
  /\ resolutions = <<>>
  /\ Idle({"graph", "closest", "ignore"})

NextSubprojects ==
  \/ PairMatcherStep
  \/ ManifestOnlyMatcherStep
  \/ FindReturn
  \/ CallResolveDependencySource
  \/ CallLockfileSource
  \/ CallManifestOnlySource
  \/ CallUnsupported
  \/ LockfileSourceStep
  \/ ManifestOnlySourceStep
  \/ FileResolution
  \/ ResolutionRaises
  \/ ResolveSubprojectsReturn

SpecSubprojects == InitSubprojects /\ [][NextSubprojects]_vars

(***************************************************************************)
(* ResolvedDependencies: the dependency graph of a resolved subproject     *)
(* and its depth-first print (SpecPrint).  The dict keeps its keys in      *)
(* insertion order, so it is a sequence of <<key, group>> entries.         *)
(***************************************************************************)
\* the longest list of found dependencies a graph is built from
MaxDeps == 2
\* the depth of the call stack at which the interpreter raises RecursionError
RecursionLimit == 5

\* out.DependencyChild(package, version)
DependencyChild(package, version) == <<package, version>>

\* a FoundDependency as the graph sees it; children is an Optional list of keys
GraphDependency(package, version, transitivity, children) ==
  [package |-> package, version |-> version, transitivity |-> transitivity, children |-> children]

KeyOf(dep) == DependencyChild(dep.package, dep.version)

RECURSIVE FoldMapping(_, _)
FoldMapping(mapping, found_deps) ==
  LET
      \* the loop body of from_found_dependencies
      AddToMapping(mapping_, dep) ==
        IF \E i \in 1..Len(mapping_) : mapping_[i].key = KeyOf(dep)
        THEN [i \in 1..Len(mapping_) |->
                IF mapping_[i].key = KeyOf(dep)
                THEN [key |-> mapping_[i].key, group |-> Append(mapping_[i].group, dep)]
                ELSE mapping_[i]]
        ELSE Append(mapping_, [key |-> KeyOf(dep), group |-> <<dep>>])
  IN
  IF found_deps = <<>> THEN mapping
  ELSE FoldMapping(AddToMapping(mapping, Head(found_deps)), Tail(found_deps))

\* from_found_dependencies keeping one record per key, the last one
FromFoundDependencies_LastOnly(found_deps) ==
  LET IsFirst(i) == \A j \in 1..(i - 1) : KeyOf(found_deps[j]) # KeyOf(found_deps[i])
      firsts == SelectSeq([i \in 1..Len(found_deps) |-> i], IsFirst)
      Last(k) ==
        found_deps[CHOOSE i \in 1..Len(found_deps) :
                     /\ KeyOf(found_deps[i]) = k
                     /\ \A j \in (i + 1)..Len(found_deps) : KeyOf(found_deps[j]) # k]
  IN [n \in 1..Len(firsts) |->
        [key |-> KeyOf(found_deps[firsts[n]]),
         group |-> <<Last(KeyOf(found_deps[firsts[n]]))>>]]

\* ResolvedDependencies.from_found_dependencies
FromFoundDependencies(found_deps) == FoldMapping(<<>>, found_deps)

MappingKeys(mapping) == {mapping[i].key : i \in 1..Len(mapping)}

\* self._dependencies_by_package_version_pair[child]
GroupOf(mapping, key) ==
  mapping[CHOOSE i \in 1..Len(mapping) : mapping[i].key = key].group

RECURSIVE ConcatGroups(_)
ConcatGroups(mapping) ==
  IF mapping = <<>> THEN <<>> ELSE Head(mapping).group \o ConcatGroups(Tail(mapping))

\* iter_found_dependencies
IterFoundDependencies(mapping) == ConcatGroups(mapping)

\* count(), lines 259-263
Count(mapping) == Len(IterFoundDependencies(mapping))

HasTransitivity(dep, t) == dep.transitivity = t
\* the list `directs` of pretty_print
Directs(mapping) ==
  LET
      IsDirect(dep) == HasTransitivity(dep, "Direct")
  IN  SelectSeq(IterFoundDependencies(mapping), IsDirect)

\* the test of line 211 never finding the key
IsAlreadyPrinted_Never(key, already_printed) == FALSE
\* the test of line 211
IsAlreadyPrinted(key, already_printed) == key \in already_printed

\* the lines printed
DepLine(dep, indent) == [kind |-> "dep", key |-> KeyOf(dep), indent |-> indent]
AlreadyPrintedLine(indent) == [kind |-> "already printed", key |-> <<>>, indent |-> indent + 1]
TitleLine(title) == [kind |-> title, key |-> <<>>, indent |-> 0]

\* pretty_print_dependency(dep, indent, already_printed) up to its loop over
\* the children (lines 204-214); st is the state of the walk
EnterDependency(dep, indent, st) ==
  IF IsAlreadyPrinted(KeyOf(dep), st.already)
  THEN [st EXCEPT !.out = @ \o <<DepLine(dep, indent), AlreadyPrintedLine(indent)>>]
  ELSE [stack |-> Append(st.stack, [dep |-> dep, indent |-> indent, next |-> 1]),
        already |-> st.already \cup {KeyOf(dep)},
        out |-> Append(st.out, DepLine(dep, indent)),
        expanded |-> Append(st.expanded, KeyOf(dep))]

ChildrenOf(dep) == IF IsNone(dep.children) THEN <<>> ELSE Get(dep.children)

FoundDependencyLists ==
  LET
      GraphDependencies ==
        LET
            ChildLists ==
              {None, Some(<<DependencyChild("A", 1)>>), Some(<<DependencyChild("B", 1)>>),
               Some(<<DependencyChild("A", 1), DependencyChild("B", 1)>>),
               Some(<<DependencyChild("B", 1), DependencyChild("B", 1)>>)}
            Transitivities == {"Direct", "Transitive", "Unknown"}
            Versions == {1}
            \* the graphs the print is run on
            Packages == {"A", "B"}
        IN
        {GraphDependency(p, v, t, c) : p \in Packages, v \in Versions, t \in Transitivities, c \in ChildLists}
  IN  UNION {[1..n -> GraphDependencies] : n \in 0..MaxDeps}

\* lines 227-233: the title, the list of directs and printed_in_graph
PrintTitle ==
  /\ gp_pc = "start"
  /\ gp_out' = <<TitleLine("Direct dependencies (plus children if available)")>>
  /\ gp_printed_in_graph' = {}
  /\ gp_direct_i' = 1
  /\ gp_pc' = "directs"
  /\ UNCHANGED <<gp_found_deps, gp_mapping, gp_stack, gp_already, gp_expanded>>
  /\ UNCHANGED <<match_vars, resolve_vars, pipeline_vars, closest_vars, ignore_vars>>

SetWalk(st) ==
  /\ gp_stack' = st.stack
  /\ gp_already' = st.already
  /\ gp_out' = st.out
  /\ gp_expanded' = st.expanded

\* line 235: pretty_print_dependency(direct) is called, with a new
\* already_printed
WalkDirect ==
  /\ gp_pc = "directs"
  /\ gp_stack = <<>>
  /\ gp_direct_i <= Len(Directs(gp_mapping))
  /\ SetWalk(EnterDependency(Directs(gp_mapping)[gp_direct_i], 0,
                             [stack |-> <<>>, already |-> {}, out |-> gp_out, expanded |-> <<>>]))
  /\ UNCHANGED <<gp_found_deps, gp_mapping, gp_pc, gp_direct_i, gp_printed_in_graph>>
  /\ UNCHANGED <<match_vars, resolve_vars, pipeline_vars, closest_vars, ignore_vars>>

\* lines 217-223: the next child of the frame on top is looked up and
\* pretty_print_dependency is called on it
ExpandChild ==
  /\ gp_pc = "directs"
  /\ gp_stack # <<>>
  /\ LET top == gp_stack[Len(gp_stack)]
         child == ChildrenOf(top.dep)[top.next]
         advanced == [gp_stack EXCEPT ![Len(gp_stack)].next = @ + 1]
     IN /\ top.next <= Len(ChildrenOf(top.dep))
        /\ IF child \notin MappingKeys(gp_mapping) \/ Len(gp_stack) >= RecursionLimit
           THEN \* KeyError, RecursionError
                /\ gp_pc' = "raised"
                /\ UNCHANGED <<gp_stack, gp_already, gp_out, gp_expanded>>
           ELSE /\ SetWalk(EnterDependency(GroupOf(gp_mapping, child)[1], top.indent + 2,
                                           [stack |-> advanced, already |-> gp_already,
                                            out |-> gp_out, expanded |-> gp_expanded]))
                /\ UNCHANGED gp_pc
  /\ UNCHANGED <<gp_found_deps, gp_mapping, gp_direct_i, gp_printed_in_graph>>
  /\ UNCHANGED <<match_vars, resolve_vars, pipeline_vars, closest_vars, ignore_vars>>

\* line 225: the frame on top has no child left and returns; the return of
\* the first frame ends the walk (line 235)
ReturnFromDependency ==
  /\ gp_pc = "directs"
  /\ gp_stack # <<>>
  /\ gp_stack[Len(gp_stack)].next > Len(ChildrenOf(gp_stack[Len(gp_stack)].dep))
  /\ gp_stack' = SubSeq(gp_stack, 1, Len(gp_stack) - 1)
  /\ IF Len(gp_stack) = 1
     THEN /\ gp_printed_in_graph' = gp_printed_in_graph \cup gp_already
          /\ gp_direct_i' = gp_direct_i + 1
     ELSE UNCHANGED <<gp_printed_in_graph, gp_direct_i>>
  /\ UNCHANGED <<gp_found_deps, gp_mapping, gp_pc, gp_already, gp_out, gp_expanded>>
  /\ UNCHANGED <<match_vars, resolve_vars, pipeline_vars, closest_vars, ignore_vars>>

\* the dependencies of lines 238-251 for one transitivity
NotPrinted(mapping, printed, t) ==
  LET Keep(dep) == HasTransitivity(dep, t) /\ KeyOf(dep) \notin printed
      deps == SelectSeq(IterFoundDependencies(mapping), Keep)
  IN [i \in 1..Len(deps) |-> DepLine(deps[i], 0)]

\* lines 237-257
PrintOthers ==
  /\ gp_pc = "directs"
  /\ gp_stack = <<>>
  /\ gp_direct_i > Len(Directs(gp_mapping))
  /\ gp_out' = gp_out \o <<TitleLine("other transitives:")>>
                      \o NotPrinted(gp_mapping, gp_printed_in_graph, "Transitive")
                      \o <<TitleLine("other unknown transitivity:")>>
                      \o NotPrinted(gp_mapping, gp_printed_in_graph, "Unknown")
  /\ gp_pc' = "done"
  /\ UNCHANGED <<gp_found_deps, gp_mapping, gp_direct_i, gp_stack, gp_already, gp_printed_in_graph, gp_expanded>>
  /\ UNCHANGED <<match_vars, resolve_vars, pipeline_vars, closest_vars, ignore_vars>>

\* lines 155-165: the graph is built from the list of found dependencies
FromFoundDependenciesStep ==
  /\ gp_pc = "build"
  /\ gp_mapping' = FromFoundDependencies(gp_found_deps)
  /\ gp_pc' = "start"
  /\ UNCHANGED <<gp_found_deps, gp_direct_i, gp_stack, gp_already, gp_printed_in_graph,
                 gp_out, gp_expanded>>
  /\ UNCHANGED <<match_vars, resolve_vars, pipeline_vars, closest_vars, ignore_vars>>

\* from_found_dependencies is called on a list of found dependencies, and
\* pretty_print() on the graph it returns
InitPrint ==
  /\ gp_found_deps \in FoundDependencyLists
  /\ gp_mapping = <<>>
  /\ gp_pc = "build"
  /\ gp_direct_i = 1
  /\ gp_stack = <<>>
  /\ gp_already = {}
  /\ gp_printed_in_graph = {}
  /\ gp_out = <<>>
  /\ gp_expanded = <<>>
  /\ Idle({"match", "resolve", "pipeline", "closest", "ignore"})

NextPrint == FromFoundDependenciesStep \/ PrintTitle \/ WalkDirect \/ ExpandChild \/ ReturnFromDependency \/ PrintOthers

SpecPrint == InitPrint /\ [][NextPrint]_vars
\* the print is sequential code that keeps running until it returns or raises
SpecPrintFair == SpecPrint /\ WF_vars(NextPrint)

(***************************************************************************)
(* find_closest_subproject (SpecClosest).  An absolute path has "/" as its *)
(* first part, as Path.parts has.                                          *)
(***************************************************************************)
\* the longest list of candidates
MaxCandidates == 2

IsAbsolute(path) == Len(path) > 0 /\ path[1] = "/"

RECURSIVE SortInto(_, _)
SortInto(sorted, candidates) ==
  LET
      \* one more element put into a list sorted by decreasing depth, behind the
      \* elements that are as deep
      InsertByDepth(sorted_, candidate) ==
        LET
            \* len(x.root_dir.parts)
            Depth(candidate_) == Len(candidate_.root_dir)
            before == Cardinality({i \in 1..Len(sorted_) : Depth(sorted_[i]) >= Depth(candidate)})
        IN SubSeq(sorted_, 1, before) \o <<candidate>> \o SubSeq(sorted_, before + 1, Len(sorted_))
  IN
  IF candidates = <<>> THEN sorted
  ELSE SortInto(InsertByDepth(sorted, Head(candidates)), Tail(candidates))

\* the candidates in the order given
SortedCandidates_Unsorted(candidates) == candidates
\* sorted(candidates, key=lambda x: len(x.root_dir.parts), reverse=True)
SortedCandidates(candidates) == SortInto(<<>>, candidates)

\* the test of line 399 over the inner loop of line 398
MatchesCandidate(candidate, path, ecosystem) ==
  LET
      \* [path, *path.parents]: the path, then its parents from the nearest one to
      \* the anchor ("/" for an absolute path, "." for a relative one)
      PathAndParents(path_) ==
        LET shortest == IF IsAbsolute(path_) THEN 1 ELSE 0
        IN [k \in 1..(Len(path_) - shortest + 1) |-> SubSeq(path_, 1, Len(path_) - k + 1)]
  IN
  \E k \in 1..Len(PathAndParents(path)) :
    candidate.root_dir = PathAndParents(path)[k] /\ candidate.ecosystem = ecosystem

Ecosystems == {"Npm", "Maven"}
\* a ResolvedSubproject as the lookup sees it
Candidate(root_dir, ecosystem) == [root_dir |-> root_dir, ecosystem |-> ecosystem]
CandidateLists ==
  LET
      Candidates ==
        LET
            \* the inputs find_closest_subproject is called with
            RootDirs ==
              {<<"/">>, <<"/", "repo">>, <<"/", "repo", "services", "api">>,
               <<"/", "repo", "services", "web">>, <<>>, <<"repo">>}
        IN
                    {Candidate(r, e) : r \in RootDirs, e \in Ecosystems}
  IN  UNION {[1..n -> Candidates] : n \in 0..MaxCandidates}

\* lines 393-395
SortCandidates ==
  /\ fc_pc = "call"
  /\ fc_sorted' = SortedCandidates(fc_candidates)
  /\ fc_i' = 1
  /\ fc_pc' = "loop"
  /\ UNCHANGED <<fc_path, fc_ecosystem, fc_candidates, fc_ret>>
  /\ UNCHANGED <<match_vars, resolve_vars, pipeline_vars, graph_vars, ignore_vars>>

\* lines 397-400: one candidate is tried against the path and its parents
TryCandidate ==
  /\ fc_pc = "loop"
  /\ fc_i <= Len(fc_sorted)
  /\ IF MatchesCandidate(fc_sorted[fc_i], fc_path, fc_ecosystem)
     THEN fc_ret' = Some(fc_sorted[fc_i]) /\ fc_pc' = "done" /\ UNCHANGED fc_i
     ELSE fc_i' = fc_i + 1 /\ UNCHANGED <<fc_ret, fc_pc>>
  /\ UNCHANGED <<fc_path, fc_ecosystem, fc_candidates, fc_sorted>>
  /\ UNCHANGED <<match_vars, resolve_vars, pipeline_vars, graph_vars, ignore_vars>>

\* the loop ends without a return: the function returns None
ReturnNoCandidate ==
  /\ fc_pc = "loop"
  /\ fc_i > Len(fc_sorted)
  /\ fc_ret' = None
  /\ fc_pc' = "done"
  /\ UNCHANGED <<fc_path, fc_ecosystem, fc_candidates, fc_sorted, fc_i>>
  /\ UNCHANGED <<match_vars, resolve_vars, pipeline_vars, graph_vars, ignore_vars>>

\* find_closest_subproject(path, ecosystem, candidates) is entered
InitClosest ==
  LET
      QueryPaths ==
        {<<"/", "repo", "services", "api", "src", "main">>, <<"/", "repo", "services", "api">>,
         <<"/", "repo", "lib">>, <<"/", "other">>, <<"repo", "x">>, <<>>}
  IN
  /\ fc_path \in QueryPaths
  /\ fc_ecosystem \in Ecosystems
  /\ fc_candidates \in CandidateLists
  /\ fc_sorted = <<>>
  /\ fc_i = 1
  /\ fc_ret = None
  /\ fc_pc = "call"
  /\ Idle({"match", "resolve", "pipeline", "graph", "ignore"})

NextClosest == SortCandidates \/ TryCandidate \/ ReturnNoCandidate

SpecClosest == InitClosest /\ [][NextClosest]_vars

(***************************************************************************)
(* The ignore filter of semgrep/ignores.py (SpecIgnore): Parser.parse      *)
(* reads the rule file of the base directory, Processor.process compiles   *)
(* the parsed patterns for fnmatch and FileIgnore.filter_paths partitions  *)
(* the candidate paths.  A string is the sequence of its characters, and   *)
(* a path of this part the sequence of its segments, each one a string.    *)
(***************************************************************************)
\* the longest rule file
MaxLines == 2

\* str.startswith
StartsWith(str, prefix) ==
  Len(prefix) <= Len(str) /\ SubSeq(str, 1, Len(prefix)) = prefix
\* str.endswith
EndsWith(str, suffix) ==
  Len(suffix) <= Len(str) /\ SubSeq(str, Len(str) - Len(suffix) + 1, Len(str)) = suffix
\* str[n:]
DropChars(str, n) == SubSeq(str, n + 1, Len(str))

\* str.rstrip(c) and str.lstrip(c) for one character c
RECURSIVE RStrip(_, _)
RStrip(str, c) ==
  IF str # <<>> /\ str[Len(str)] = c THEN RStrip(SubSeq(str, 1, Len(str) - 1), c) ELSE str
RECURSIVE LStrip(_, _)
LStrip(str, c) ==
  IF str # <<>> /\ Head(str) = c THEN LStrip(Tail(str), c) ELSE str

\* os.path.join(a, b)
OsPathJoin(a, b) ==
  IF StartsWith(b, <<"/">>) THEN b
  ELSE IF a = <<>> \/ EndsWith(a, <<"/">>) THEN a \o b
  ELSE a \o <<"/">> \o b

\* Parser.remove_comments: the group ignore_pattern is the shortest prefix
\* the regex can match after
RemoveComments(line) ==
  LET
      \* COMMENT_START_REGEX.match(line): the lengths k of the prefixes after which
      \* (?:\s+|^)# matches
      CommentStarts(line_) ==
        {k \in 0..(Len(line_) - 1) :
           \/ k = 0 /\ line_[1] = "#"
           \/ \E m \in 1..(Len(line_) - k - 1) :
                /\ \A j \in (k + 1)..(k + m) : line_[j] = " "
                /\ line_[k + m + 1] = "#"}
      \* the smallest element of a non-empty set of numbers
      Least(S) == CHOOSE k \in S : \A j \in S : k <= j
  IN
  IF CommentStarts(line) # {}
  THEN SubSeq(line, 1, Least(CommentStarts(line)))
  ELSE RStrip(line, " ")

\* MULTI_CHAR_REGEX.search(line): a "[" with a "]" somewhere after it
HasBrackets(line) ==
  \E i, j \in 1..Len(line) : i < j /\ line[i] = "[" /\ line[j] = "]"

\* Parser.filter_supported: is the line yielded
IsSupported(line) ==
  line # <<>> /\ ~StartsWith(line, <<"!">>) /\ ~HasBrackets(line)

\* the string ":include "
IncludePrefix == <<":", "i", "n", "c", "l", "u", "d", "e", " ">>

\* CONTROL_REGEX.match(line): the look-ahead (?!<\\) is never in the way of
\* a colon, so the regex matches every line that starts with one
IsControl(line) == StartsWith(line, <<":">>)

\* the branch Parser.expand_directives takes with an escaped colon taken
\* for a directive too
Directive_EscapeIsControl(line) ==
  IF StartsWith(line, IncludePrefix) THEN "include"
  ELSE IF line = <<":">> THEN "drop"
  ELSE IF IsControl(line) \/ StartsWith(line, <<"\\", ":">>) THEN "error"
  ELSE "pattern"
\* the branch Parser.expand_directives takes
Directive(line) ==
  IF StartsWith(line, IncludePrefix) THEN "include"
  ELSE IF line = <<":">> THEN "drop"
  ELSE IF IsControl(line) THEN "error"
  ELSE "pattern"

\* Processor.unescape
RECURSIVE Unescape(_)
Unescape(line) ==
  IF line = <<>> THEN <<>>
  ELSE IF Head(line) = "\\"
       THEN (IF Len(line) = 1 THEN <<>> ELSE <<line[2]>> \o Unescape(DropChars(line, 2)))
       ELSE <<Head(line)>> \o Unescape(Tail(line))

\* is_anchored of Processor.to_fnmatch
IsAnchored(git_pat) == \E i \in 1..Len(RStrip(git_pat, "/")) : git_pat[i] = "/"
\* pat of Processor.to_fnmatch (lines 272-276)
FnmatchBase(git_pat) ==
  IF IsAnchored(git_pat) /\ (StartsWith(git_pat, <<".", "/">>) \/ StartsWith(git_pat, <<"/">>))
  THEN LStrip(LStrip(git_pat, "."), "/")
  ELSE git_pat

\* Processor.to_fnmatch yielding the bare pattern of a folder pattern too
ToFnmatch_FolderAsFile(git_pat) ==
  LET pat == FnmatchBase(git_pat)
      unanchored_pat == OsPathJoin(<<"*", "*">>, pat)
  IN {OsPathJoin(pat, <<"*", "*">>), pat}
       \cup (IF ~IsAnchored(git_pat)
             THEN {OsPathJoin(unanchored_pat, <<"*", "*">>), unanchored_pat}
             ELSE {})
\* Processor.to_fnmatch: the patterns yielded
ToFnmatch(git_pat) ==
  LET
      \* is_folder of Processor.to_fnmatch
      IsFolder(git_pat_) == EndsWith(git_pat_, <<"/">>)
      pat == FnmatchBase(git_pat)
      unanchored_pat == OsPathJoin(<<"*", "*">>, pat)
  IN {OsPathJoin(pat, <<"*", "*">>)}
       \cup (IF ~IsFolder(git_pat) THEN {pat} ELSE {})
       \cup (IF ~IsAnchored(git_pat)
             THEN {OsPathJoin(unanchored_pat, <<"*", "*">>)}
                    \cup (IF ~IsFolder(git_pat) THEN {unanchored_pat} ELSE {})
             ELSE {})

\* Processor.process
Process(pre) == UNION {ToFnmatch(Unescape(pat)) : pat \in pre}

\* a glob match in which "*" does not match "/"
RECURSIVE FnMatch_StarStopsAtSlash(_, _)
FnMatch_StarStopsAtSlash(name, pat) ==
  IF pat = <<>> THEN name = <<>>
  ELSE IF Head(pat) = "*"
       THEN FnMatch_StarStopsAtSlash(name, Tail(pat))
              \/ (name # <<>> /\ Head(name) # "/" /\ FnMatch_StarStopsAtSlash(Tail(name), pat))
       ELSE /\ name # <<>>
            /\ Head(pat) = "?" \/ Head(pat) = Head(name)
            /\ FnMatch_StarStopsAtSlash(Tail(name), Tail(pat))
\* fnmatch.fnmatch(name, pat) for patterns of literal characters, "?" and
\* "*": fnmatch compiles "*" to ".*", which matches "/" as well
RECURSIVE FnMatch(_, _)
FnMatch(name, pat) ==
  IF pat = <<>> THEN name = <<>>
  ELSE IF Head(pat) = "*"
       THEN FnMatch(name, Tail(pat)) \/ (name # <<>> /\ FnMatch(Tail(name), pat))
       ELSE /\ name # <<>>
            /\ Head(pat) = "?" \/ Head(pat) = Head(name)
            /\ FnMatch(Tail(name), Tail(pat))

\* a path is absolute when its first part is the root
IsAbsolutePath(path) == path # <<>> /\ Head(path) = <<"/">>

RECURSIVE JoinSegments(_)
JoinSegments(segments) ==
  IF segments = <<>> THEN <<>>
  ELSE IF Len(segments) = 1 THEN segments[1]
  ELSE segments[1] \o <<"/">> \o JoinSegments(Tail(segments))

\* path_is_relative_to(p1, p2)
PathIsRelativeTo(p1, p2) ==
  Len(p2) <= Len(p1) /\ SubSeq(p1, 1, Len(p2)) = p2
\* matchable_path being the name of the file alone
MatchablePath_Name(path, base_path) == path[Len(path)]
\* matchable_path of FileIgnore._survives
MatchablePath(path, base_path) ==
  LET
      \* str(path)
      PathStr(path_) ==
        IF path_ = <<>> THEN <<".">>
        ELSE IF IsAbsolutePath(path_) THEN <<"/">> \o JoinSegments(Tail(path_))
        ELSE JoinSegments(path_)
      \* p1.relative_to(p2)
      RelativeTo(p1, p2) == SubSeq(p1, Len(p2) + 1, Len(p1))
  IN
  IF PathIsRelativeTo(path, base_path) THEN PathStr(RelativeTo(path, base_path)) ELSE PathStr(path)

\* FileIgnore._survives
Survives(path, base_path, fnmatch_patterns) ==
  LET
      \* the patterns FileIgnore._survives tries on a path (line 70)
      TriedPatterns(path_, base_path_, fnmatch_patterns_) ==
        {pat \in fnmatch_patterns_ :
           PathIsRelativeTo(path_, base_path_) \/ StartsWith(pat, <<"*", "*", "/">>)}
  IN
  \A pat \in TriedPatterns(path, base_path, fnmatch_patterns) :
    ~FnMatch(MatchablePath(path, base_path), pat)

\* the segments of a path given as a string: Path(str).parts without the root
RECURSIVE SplitSegments(_, _)
SplitSegments(str, segment) ==
  IF str = <<>> THEN (IF segment \in {<<>>, <<".">>} THEN <<>> ELSE <<segment>>)
  ELSE IF Head(str) = "/"
       THEN (IF segment \in {<<>>, <<".">>} THEN <<>> ELSE <<segment>>) \o SplitSegments(Tail(str), <<>>)
       ELSE SplitSegments(Tail(str), Append(segment, Head(str)))

\* base_path / str
PathDiv(base_path, str) ==
  IF StartsWith(str, <<"/">>) THEN <<(<<"/">>)>> \o SplitSegments(str, <<>>)
  ELSE base_path \o SplitSegments(str, <<>>)

\* the current folder, where the rule file is: FileIgnore.base_path
BasePath == <<<<"/">>, <<"r">>>>
IGNORE_FILE_NAME == <<".", "s", "e", "m", "g", "r", "e", "p", "i", "g", "n", "o", "r", "e">>

RuleFiles ==
  LET
      \* the rule lines a rule file is written with
      RuleLines ==
        {<<"b", "u", "i", "l", "d", "/">>,
         <<"*", ".", "l", "o", "c", "k">>,
         <<"*">>,
         <<"/", "R", "E", "A", "D", "M", "E">>,
         <<":">>,
         <<":", "b", "a", "d">>,
         <<"\\", ":", "x">>,
         <<":", "i", "n", "c", "l", "u", "d", "e", " ", "e", "x", "t", "r", "a">>,
         <<":", "i", "n", "c", "l", "u", "d", "e", " ", "m", "i", "s", "s", "i", "n", "g">>,
         <<":", "i", "n", "c", "l", "u", "d", "e", " ", "s", "u", "b", "/", "r", "u", "l", "e", "s">>,
         <<":", "i", "n", "c", "l", "u", "d", "e", " ", "l", "o", "o", "p">>,
         <<":", "[", "x", "]">>,
         <<"!", "k", "e", "e", "p">>,
         <<"#", " ", "n", "o", "t", "e">>,
         <<":", "b", "a", "d", " ", "#", " ", "c">>}
  IN  UNION {[1..n -> RuleLines] : n \in 0..MaxLines}

\* the files and directories under the base directory and outside of it;
\* build_kind tells whether build is a directory, a regular file, or absent
FileSystem(build_kind, rule_file) ==
  LET
      File(lines_) == [kind |-> "file", lines |-> lines_]
      Dir == [kind |-> "dir", lines |-> <<>>]
      always ==
        (<<<<"/">>, <<"r">>>> :> Dir)
        @@ (<<<<"/">>, <<"r">>, <<".", "s", "e", "m", "g", "r", "e", "p", "i", "g", "n", "o", "r", "e">>>> :> File(rule_file))
        @@ (<<<<"/">>, <<"r">>, <<"x", ".", "l", "o", "c", "k">>>> :> File(<<>>))
        @@ (<<<<"/">>, <<"r">>, <<"R", "E", "A", "D", "M", "E">>>> :> File(<<>>))
        @@ (<<<<"/">>, <<"r">>, <<"a">>>> :> Dir)
        @@ (<<<<"/">>, <<"r">>, <<"a">>, <<"b">>>> :> Dir)
        @@ (<<<<"/">>, <<"r">>, <<"a">>, <<"b">>, <<"x", ".", "l", "o", "c", "k">>>> :> File(<<>>))
        @@ (<<<<"/">>, <<"r">>, <<"s", "u", "b">>>> :> Dir)
        @@ (<<<<"/">>, <<"r">>, <<"s", "u", "b">>, <<"R", "E", "A", "D", "M", "E">>>> :> File(<<>>))
        @@ (<<<<"/">>, <<"r">>, <<"s", "u", "b">>, <<"b", "u", "i", "l", "d">>>> :> Dir)
        @@ (<<<<"/">>, <<"r">>, <<"s", "u", "b">>, <<"b", "u", "i", "l", "d">>, <<"y">>>> :> File(<<>>))
        @@ (<<<<"/">>, <<"r">>, <<"e", "x", "t", "r", "a">>>> :> File(<<<<"*", ".", "l", "o", "c", "k">>>>))
        @@ (<<<<"/">>, <<"r">>, <<"s", "u", "b">>, <<"r", "u", "l", "e", "s">>>> :> File(<<<<":", "i", "n", "c", "l", "u", "d", "e", " ", "m", "o", "r", "e">>, <<"/", "R", "E", "A", "D", "M", "E">>>>))
        @@ (<<<<"/">>, <<"r">>, <<"s", "u", "b">>, <<"m", "o", "r", "e">>>> :> File(<<<<"b", "u", "i", "l", "d", "/">>>>))
        @@ (<<<<"/">>, <<"r">>, <<"l", "o", "o", "p">>>> :> File(<<<<":", "i", "n", "c", "l", "u", "d", "e", " ", "l", "o", "o", "p">>>>))
        @@ (<<<<"/">>, <<"t", "m", "p">>>> :> Dir)
        @@ (<<<<"/">>, <<"t", "m", "p">>, <<"x", ".", "l", "o", "c", "k">>>> :> File(<<>>))
        @@ (<<<<"/">>, <<"t", "m", "p">>, <<"b", "u", "i", "l", "d">>>> :> Dir)
        @@ (<<<<"/">>, <<"t", "m", "p">>, <<"b", "u", "i", "l", "d">>, <<"z">>>> :> File(<<>>))
      build ==
        IF build_kind = "dir"
        THEN (<<<<"/">>, <<"r">>, <<"b", "u", "i", "l", "d">>>> :> Dir) @@ (<<<<"/">>, <<"r">>, <<"b", "u", "i", "l", "d">>, <<"o", "u", "t", ".", "o">>>> :> File(<<>>))
        ELSE IF build_kind = "file" THEN (<<<<"/">>, <<"r">>, <<"b", "u", "i", "l", "d">>>> :> File(<<>>))
        ELSE <<>>
  IN IF build_kind = "absent" THEN always ELSE always @@ build
\* the paths handed to filter_paths: absolute ones, under the base directory
\* and outside of it, present or not, and two relative to the current folder
CandidatePaths ==
  DOMAIN FileSystem("dir", <<>>)
    \cup {<<<<"/">>, <<"r">>, <<"g", "o", "n", "e">>>>, <<<<"/">>, <<"t", "m", "p">>, <<"g", "o", "n", "e">>>>, <<<<"x", ".", "l", "o", "c", "k">>>>, <<<<"s", "u", "b">>, <<"R", "E", "A", "D", "M", "E">>>>}

Exists(path) == path \in DOMAIN ig_fs

\* path.absolute(), the current folder being the base directory
Absolute(path) == IF IsAbsolutePath(path) THEN path ELSE BasePath \o path

\* FileIgnore._filter without the exception made for the base directory
Filter_NoBaseException(path) ==
  Exists(Absolute(path)) /\ Survives(Absolute(path), BasePath, ig_fnmatch)
\* FileIgnore._filter
Filter(path) ==
  /\ Exists(Absolute(path))
  /\ Survives(Absolute(path), BasePath, ig_fnmatch) \/ Absolute(path) = BasePath

\* include_path.is_file() with a guard on the depth of the include chain
IsFile_DepthGuard(path) ==
  path \in DOMAIN ig_fs /\ ig_fs[path].kind = "file" /\ Len(ig_stack) < 3
\* include_path.is_file()
IsFile(path) == path \in DOMAIN ig_fs /\ ig_fs[path].kind = "file"

\* Parser.parse handles one line of the file on top: remove_comments,
\* filter_supported, expand_directives
ParseLine ==
  LET
      \* a Parser(file_path, base_path) reading the lines of its file
      ParserFrame(file_path, base_path) ==
        [file_path |-> file_path, base_path |-> base_path, lines |-> ig_fs[file_path].lines, next |-> 1]
      \* path.parent
      ParentDir(path) == IF Len(path) <= 1 THEN path ELSE SubSeq(path, 1, Len(path) - 1)
  IN
  /\ ig_pc = "parse"
  /\ ig_stack # <<>>
  /\ LET top == ig_stack[Len(ig_stack)]
         line == RemoveComments(top.lines[top.next])
         advanced == [ig_stack EXCEPT ![Len(ig_stack)].next = @ + 1]
         include_path == PathDiv(top.base_path, DropChars(line, Len(IncludePrefix)))
     IN /\ top.next <= Len(top.lines)
        /\ IF ~IsSupported(line) \/ Directive(line) = "drop"
           THEN ig_stack' = advanced /\ UNCHANGED <<ig_parsed, ig_pc>>
           ELSE IF Directive(line) = "pattern"
           THEN ig_stack' = advanced /\ ig_parsed' = ig_parsed \cup {line} /\ UNCHANGED ig_pc
           ELSE IF Directive(line) = "include" /\ ~IsFile(include_path)
           THEN ig_stack' = advanced /\ UNCHANGED <<ig_parsed, ig_pc>>
           ELSE IF Directive(line) = "include" /\ Len(ig_stack) < RecursionLimit
           THEN /\ ig_stack' = Append(advanced, ParserFrame(include_path, ParentDir(include_path)))
                /\ UNCHANGED <<ig_parsed, ig_pc>>
           ELSE \* SemgrepError of line 187, or the include chain exhausts the stack
                /\ ig_pc' = IF Directive(line) = "error" THEN "syntax_error" ELSE "recursion_error"
                /\ ig_stack' = <<>>
                /\ ig_parsed' = {}
  /\ UNCHANGED <<ig_fs, ig_fnmatch, ig_kept, ig_removed>>
  /\ UNCHANGED <<match_vars, resolve_vars, pipeline_vars, graph_vars, closest_vars>>

\* Parser.parse has read every line of the file on top and returns; the
\* patterns of the rule file go to FileIgnore.from_unprocessed_patterns
ParseReturn ==
  /\ ig_pc = "parse"
  /\ ig_stack # <<>>
  /\ ig_stack[Len(ig_stack)].next > Len(ig_stack[Len(ig_stack)].lines)
  /\ ig_stack' = SubSeq(ig_stack, 1, Len(ig_stack) - 1)
  /\ ig_pc' = IF Len(ig_stack) = 1 THEN "process" ELSE "parse"
  /\ UNCHANGED <<ig_fs, ig_parsed, ig_fnmatch, ig_kept, ig_removed>>
  /\ UNCHANGED <<match_vars, resolve_vars, pipeline_vars, graph_vars, closest_vars>>

\* FileIgnore.from_unprocessed_patterns
FromUnprocessedPatterns ==
  /\ ig_pc = "process"
  /\ ig_fnmatch' = Process(ig_parsed)
  /\ ig_pc' = "filter"
  /\ UNCHANGED <<ig_fs, ig_stack, ig_parsed, ig_kept, ig_removed>>
  /\ UNCHANGED <<match_vars, resolve_vars, pipeline_vars, graph_vars, closest_vars>>

\* FileIgnore.filter_paths
FilterPaths ==
  /\ ig_pc = "filter"
  /\ ig_kept' = {path \in CandidatePaths : Filter(path)}
  /\ ig_removed' = {path \in CandidatePaths : ~Filter(path)}
  /\ ig_pc' = "done"
  /\ UNCHANGED <<ig_fs, ig_stack, ig_parsed, ig_fnmatch>>
  /\ UNCHANGED <<match_vars, resolve_vars, pipeline_vars, graph_vars, closest_vars>>

\* the rule file of the base directory is about to be parsed
InitIgnore ==
  LET
      BuildKinds == {"dir", "file", "absent"}
  IN
  /\ ig_fs \in {FileSystem(k, rule_file) : k \in BuildKinds, rule_file \in RuleFiles}
  /\ ig_stack = <<[file_path |-> Append(BasePath, IGNORE_FILE_NAME), base_path |-> BasePath,
                   lines |-> ig_fs[Append(BasePath, IGNORE_FILE_NAME)].lines, next |-> 1]>>
  /\ ig_parsed = {}
  /\ ig_fnmatch = {}
  /\ ig_kept = {}
  /\ ig_removed = {}
  /\ ig_pc = "parse"
  /\ Idle({"match", "resolve", "pipeline", "graph", "closest"})

NextIgnore == ParseLine \/ ParseReturn \/ FromUnprocessedPatterns \/ FilterPaths

SpecIgnore == InitIgnore /\ [][NextIgnore]_vars

(***************************************************************************)
(* From the candidate files to the subprojects: the ignore filter shrinks  *)
(* the candidate set, then find_subprojects runs the matchers on what is   *)
(* left (SpecEndToEnd).  The target manager that applies the filter and    *)
(* PipRequirementsMatcher, the first entry of MATCHERS, are not part of    *)
(* the source tree.                                                        *)
(***************************************************************************)
\* the candidate files of the scanned folder
EndToEndFiles ==
  {<<"package.json">>, <<"package-lock.json">>, <<"requirements.txt">>, <<"requirements.in">>,
   <<"node_modules", "pkg", "package.json">>}

\* str(path) seen one character at a time: the path whose segments are the
\* spelled names of a path of the matcher framework
Spell(path) ==
  LET SpellName(name) ==
        CASE name = "package.json" -> <<"p", "a", "c", "k", "a", "g", "e", ".", "j", "s", "o", "n">>
          [] name = "package-lock.json" -> <<"p", "a", "c", "k", "a", "g", "e", "-", "l", "o", "c", "k", ".", "j", "s", "o", "n">>
          [] name = "requirements.txt" -> <<"r", "e", "q", "u", "i", "r", "e", "m", "e", "n", "t", "s", ".", "t", "x", "t">>
          [] name = "requirements.in" -> <<"r", "e", "q", "u", "i", "r", "e", "m", "e", "n", "t", "s", ".", "i", "n">>
          [] name = "node_modules" -> <<"n", "o", "d", "e", "_", "m", "o", "d", "u", "l", "e", "s">>
          [] name = "pkg" -> <<"p", "k", "g">>
  IN [i \in 1..Len(path) |-> SpellName(path[i])]

\* the first entry of MATCHERS
PipRequirementsMatcher ==
  [cls |-> "PipRequirementsMatcher",
   base_file_pattern |-> <<"*", "r", "e", "q", "u", "i", "r", "e", "m", "e", "n", "t", "*">>,
   requirements_file_extensions |-> {<<"t", "x", "t">>, <<"p", "i", "p">>},
   manifest_name |-> "requirements.in",
   lockfile_kind |-> "PipRequirementsTxt", manifest_kind |-> "RequirementsIn"]

\* a requirements lockfile: the path matches the base pattern followed by one
\* of the extensions
IsRequirementsMatch(m, path) ==
  \E ext \in m.requirements_file_extensions :
    FnMatch(JoinSegments(Spell(path)), m.base_file_pattern \o <<".">> \o ext)

\* get_all_dependency_source_files: the candidate files of the scanned folder
\* that the ignore filter keeps
GetAllDependencySourceFiles ==
  /\ ig_pc = "filter"
  /\ find_pc = "idle"
  /\ LET candidates == {p \in DOMAIN ig_fs : ig_fs[p].kind = "file" /\ p # Append(BasePath, IGNORE_FILE_NAME)}
         unspelled == {p \in EndToEndFiles : BasePath \o Spell(p) \in candidates}
     IN /\ ig_kept' = {p \in candidates : Filter(p)}
        /\ ig_removed' = {p \in candidates : ~Filter(p)}
        /\ dependency_source_files' = {p \in unspelled : Filter(BasePath \o Spell(p))}
  /\ ig_pc' = "done"
  /\ find_pc' = "pip"
  /\ UNCHANGED <<ig_fs, ig_stack, ig_parsed, ig_fnmatch>>
  /\ UNCHANGED <<used_files, unresolved_subprojects, matcher_index, calls>>
  /\ UNCHANGED <<resolve_vars, pipeline_vars, graph_vars, closest_vars>>

\* the loop body of find_subprojects for PipRequirementsMatcher, the matcher
\* that runs first: one subproject for each requirements lockfile, paired with
\* the manifest of its directory when there is one
PipRequirementsMatcherStep ==
  /\ find_pc = "pip"
  /\ LET m == PipRequirementsMatcher
         offered == RemainingFiles(dependency_source_files, used_files)
     IN \E order \in Orderings({p \in offered : IsRequirementsMatch(m, p)}) :
          LET result == PairMakeSubprojects(m, offered, order)
          IN /\ calls' = Append(calls, [matcher |-> 0, offered |-> offered,
                                        subprojects |-> result.subprojects, used |-> result.used])
             /\ used_files' = UsedAfter(used_files, result.used)
             /\ unresolved_subprojects' = unresolved_subprojects \o result.subprojects
  /\ find_pc' = "loop"
  /\ UNCHANGED <<dependency_source_files, matcher_index>>
  /\ UNCHANGED resolve_vars
  /\ UNCHANGED <<pipeline_vars, pure_vars>>

\* a scanned folder holding some of the candidate files and a rule file
InitEndToEnd ==
  /\ \E files \in SUBSET EndToEndFiles :
     \E rules \in {<<>>, <<<<"n", "o", "d", "e", "_", "m", "o", "d", "u", "l", "e", "s", "/">>>>, <<<<"*", ".", "t", "x", "t">>>>,
                   <<<<"n", "o", "d", "e", "_", "m", "o", "d", "u", "l", "e", "s", "/">>, <<"*", ".", "i", "n">>>>} :
       ig_fs = [p \in {BasePath, Append(BasePath, IGNORE_FILE_NAME)} \cup {BasePath \o Spell(f) : f \in files} |->
                  IF p = BasePath THEN [kind |-> "dir", lines |-> <<>>]
                  ELSE IF p = Append(BasePath, IGNORE_FILE_NAME) THEN [kind |-> "file", lines |-> rules]
                  ELSE [kind |-> "file", lines |-> <<>>]]
  /\ ig_stack = <<[file_path |-> Append(BasePath, IGNORE_FILE_NAME), base_path |-> BasePath,
                   lines |-> ig_fs[Append(BasePath, IGNORE_FILE_NAME)].lines, next |-> 1]>>
  /\ ig_parsed = {}
  /\ ig_fnmatch = {}
  /\ ig_kept = {}
  /\ ig_removed = {}
  /\ ig_pc = "parse"
  /\ Idle({"match", "resolve", "pipeline", "graph", "closest"})

NextEndToEnd ==
  \/ ParseLine \/ ParseReturn \/ FromUnprocessedPatterns \/ GetAllDependencySourceFiles
  \/ PipRequirementsMatcherStep \/ PairMatcherStep \/ ManifestOnlyMatcherStep \/ FindReturn

SpecEndToEnd == InitEndToEnd /\ [][NextEndToEnd]_vars

(***************************************************************************)
(* Processor.process on one token (ignores.py:246-305).                    *)
(***************************************************************************)
\* the longest token converted
MaxToken == 4

\* from_unprocessed_patterns is about to convert one token
InitToFnmatch ==
  LET Chars == {"a", ".", "/"}
      Tokens == UNION {[1..n -> Chars] : n \in 1..MaxToken}
  IN
  /\ ig_parsed \in {{git_pat} : git_pat \in Tokens}
  /\ ig_pc = "process"
  /\ ig_fs = <<>>
  /\ ig_stack = <<>>
  /\ ig_fnmatch = {}
  /\ ig_kept = {}
  /\ ig_removed = {}
  /\ Idle({"match", "resolve", "pipeline", "graph", "closest"})

SpecToFnmatch == InitToFnmatch /\ [][FromUnprocessedPatterns]_vars

(***************************************************************************)
(* Properties of the matcher framework (SpecMatch).                        *)
(***************************************************************************)
\* the files returned as consumed by the make_subprojects calls before call k
ConsumedBefore(k) == UNION {calls[j].used : j \in 1..(k - 1)}
\* the matcher of the k-th make_subprojects call
MatcherOf(k) == MATCHERS[calls[k].matcher]

\* C1 (matcher exclusivity): at every point of find_subprojects the files
\* consumed by the matchers run so far are files of the input set, and no file
\* is a manifest or lockfile of two different produced subprojects.
C1_MatcherExclusivity ==
  /\ used_files \subseteq dependency_source_files
  /\ UNION {calls[k].used : k \in 1..Len(calls)} \subseteq dependency_source_files
  /\ \A i, j \in 1..Len(unresolved_subprojects) :
       i # j => BackingFiles(unresolved_subprojects[i].dependency_source)
                  \cap BackingFiles(unresolved_subprojects[j].dependency_source) = {}

\* find_subprojects has returned for a directory holding package.json with both
\* package-lock.json and yarn.lock: two matchers could pair the same manifest
C1_Witness ==
  /\ find_pc = "done"
  /\ \E d \in Dirs :
       {PathJoin(d, "package.json"), PathJoin(d, "package-lock.json"), PathJoin(d, "yarn.lock")}
         \subseteq dependency_source_files
  /\ Len(unresolved_subprojects) = 2

\* C2 (global dispatch): the set passed to the k-th make_subprojects call is
\* the input set minus every file returned as consumed by the calls before it,
\* and no subproject built by the k-th call has such a file as lockfile or
\* manifest.
C2_GlobalDispatch ==
  \A k \in 1..Len(calls) :
    /\ calls[k].matcher = k
    /\ calls[k].offered = dependency_source_files \ ConsumedBefore(k)
    /\ \A i \in 1..Len(calls[k].subprojects) :
         BackingFiles(calls[k].subprojects[i].dependency_source) \cap ConsumedBefore(k) = {}

\* a pom.xml consumed by the Maven pair matcher was withheld from the
\* manifest-only matcher, which would have matched it
C2_Witness ==
  /\ find_pc = "done"
  /\ \E k \in 1..Len(calls) :
       /\ ~IsPairMatcher(MatcherOf(k))
       /\ \E f \in ConsumedBefore(k) : IsManifestMatch(MatcherOf(k), f) /\ f \notin calls[k].offered

\* C3 (root-directory policy): a subproject built by a pair matcher for a
\* lockfile that paired with a manifest has the manifest's parent directory as
\* root_dir; one built for a lockfile with no paired manifest has the
\* lockfile's parent directory.
C3_RootDirectoryPolicy ==
  \A k \in 1..Len(calls) : IsPairMatcher(MatcherOf(k)) =>
    \A i \in 1..Len(calls[k].subprojects) :
      LET sp == calls[k].subprojects[i]
          src == sp.dependency_source
      IN /\ src.type \in {"ManifestLockfile", "LockfileOnly"}
         /\ src.type = "ManifestLockfile" => sp.root_dir = PathParent(Get(src.manifest).path)
         /\ src.type = "LockfileOnly" => sp.root_dir = PathParent(Get(src.lockfile).path)

\* both kinds of subproject were built, below the scanned directory
C3_Witness ==
  /\ find_pc = "done"
  /\ \E i, j \in 1..Len(unresolved_subprojects) :
       /\ unresolved_subprojects[i].dependency_source.type = "ManifestLockfile"
       /\ unresolved_subprojects[i].root_dir = <<"a", "b">>
       /\ unresolved_subprojects[j].dependency_source.type = "LockfileOnly"
       /\ unresolved_subprojects[j].root_dir = <<"a">>

\* the manifest a pair matcher expects beside a lockfile
ExpectedManifest(m, lockfile_path) == PathJoin(PathParent(lockfile_path), m.manifest_name)

SubprojectsUsing(p) ==
  {i \in 1..Len(unresolved_subprojects) : p \in BackingFiles(unresolved_subprojects[i].dependency_source)}

\* C5: the manifest-only matchers are registered after the pair matchers of the
\* same manifest kind, so that once find_subprojects has returned a pom.xml
\* with maven_dep_tree.txt beside it was consumed by the Maven pair matcher and
\* belongs to exactly one subproject, a ManifestAndLockfile one, and to no
\* ManifestOnly one, while a pom.xml with no maven_dep_tree.txt beside it
\* belongs to exactly one subproject, a ManifestOnly one.
C5_ManifestOnlyAfterPair ==
  /\ \A i, j \in 1..Len(MATCHERS) :
       (~IsPairMatcher(MATCHERS[i]) /\ IsPairMatcher(MATCHERS[j])
          /\ MATCHERS[j].manifest_kind = MATCHERS[i].manifest_kind) => j < i
  /\ find_pc = "done" =>
       \A d \in Dirs :
         LET pom == PathJoin(d, "pom.xml")
             tree == PathJoin(d, "maven_dep_tree.txt")
         IN pom \in dependency_source_files =>
              /\ Cardinality(SubprojectsUsing(pom)) = 1
              /\ \A i \in SubprojectsUsing(pom) :
                   LET src == unresolved_subprojects[i].dependency_source
                   IN IF tree \in dependency_source_files
                      THEN /\ src = ManifestLockfileDependencySource(
                                      Manifest("PomXml", pom), Lockfile("MavenDepTree", tree))
                           /\ \E k \in 1..Len(calls) :
                                /\ IsPairMatcher(MatcherOf(k))
                                /\ MatcherOf(k).lockfile_kind = "MavenDepTree"
                                /\ pom \in calls[k].used
                      ELSE src = ManifestOnlyDependencySource(Manifest("PomXml", pom))

\* one run met both cases: a pom.xml beside maven_dep_tree.txt and a lone one
C5_Witness ==
  /\ find_pc = "done"
  /\ \E d1, d2 \in Dirs :
       /\ {PathJoin(d1, "pom.xml"), PathJoin(d1, "maven_dep_tree.txt"), PathJoin(d2, "pom.xml")}
            \subseteq dependency_source_files
       /\ PathJoin(d2, "maven_dep_tree.txt") \notin dependency_source_files
       /\ Len(unresolved_subprojects) = 2

(***************************************************************************)
(* Properties of the resolution orchestrator (SpecResolve).                *)
(***************************************************************************)
IsLockfileSource(src) == src.type \in {"LockfileOnly", "ManifestLockfile"}

\* the resolver was asked and its first response is a success
DynamicSucceeded ==
  /\ rpc_calls # <<>>
  /\ ~IsNone(resolver)
  /\ Len(Get(resolver)) > 0
  /\ Get(resolver)[1].tag = "ResolutionOk"
\* the resolver was asked and gave no response or a failure as first response
DynamicFailed ==
  /\ rpc_calls # <<>>
  /\ \/ IsNone(resolver)
     \/ Len(Get(resolver)) > 0 /\ Get(resolver)[1].tag = "ResolutionError"
\* the dependencies the resolver reports for a manifest, when it succeeds
DynamicDeps(manifest_path) ==
  [j \in 1..Len(Get(resolver)[1].packages) |-> FoundDependency(Get(resolver)[1].packages[j], manifest_path)]
\* a parser and an ecosystem are registered for the kind of the source's lockfile
Registered(src) ==
  HasParser(Get(src.lockfile).kind) /\ ~IsNone(ECOSYSTEM_BY_LOCKFILE_KIND(Get(src.lockfile).kind))
\* the dependencies the registered parser reads from the source's lockfile
StaticDeps(src) ==
  Parse(Get(src.lockfile).path, IF src.type = "ManifestLockfile" THEN Some(Get(src.manifest).path) ELSE None).deps

\* a ManifestAndLockfile source, resolved with dynamic resolution enabled and
\* prioritized, whose manifest kind is not in the allow-list
C6_Case ==
  /\ pc = "done"
  /\ dep_source.type = "ManifestLockfile"
  /\ enable_dynamic_resolution
  /\ prioritize_dependency_graph_generation
  /\ Get(dep_source.manifest).kind \notin DEPENDENCY_GRAPH_SUPPORTED_MANIFEST_KINDS

\* C6 as stated (fallback correctness): in that case the external resolver is
\* never called and the result comes from the static parser registered for the
\* lockfile kind, with resolution method LockfileParsing.
C6_FallbackCorrectness_Original ==
  C6_Case =>
    /\ rpc_calls = <<>>
    /\ ~IsNone(Returned.info)
    /\ Get(Returned.info).method = "LOCKFILE_PARSING"
    /\ Get(Returned.info).deps = StaticDeps(dep_source)

\* C6 as amended: in that case the external resolver is never called; when a
\* parser and an ecosystem are registered for the lockfile kind the result
\* comes from that parser with resolution method LockfileParsing, and otherwise
\* (uv.lock) there is no result and nothing is parsed.
C6_FallbackCorrectness ==
  C6_Case =>
    /\ rpc_calls = <<>>
    /\ IF Registered(dep_source)
       THEN /\ ~IsNone(Returned.info)
            /\ Get(Returned.info).method = "LOCKFILE_PARSING"
            /\ Get(Returned.info).deps = StaticDeps(dep_source)
            /\ parser_calls = << <<Get(dep_source.lockfile).path, Some(Get(dep_source.manifest).path)>> >>
       ELSE /\ Returned = [info |-> None, errors |-> <<>>, targets |-> <<>>]
            /\ parser_calls = <<>>

\* a package.json/package-lock.json source was resolved statically although
\* the resolver would have answered with a success
C6_Witness ==
  /\ C6_Case
  /\ Registered(dep_source)
  /\ resolver = Some(<<ResolutionOk(<<"d1", "d2">>, <<>>)>>)
  /\ Get(Returned.info).deps # <<>>

\* C7: when dynamic resolution is attempted for a lockfile source and
\* succeeds, its result is what is returned, with resolution method Dynamic:
\* the parser is never invoked, and no parsed dependency, parse error or
\* lockfile target is part of the result.
C7_DynamicReplacesStatic ==
  (pc = "done" /\ IsLockfileSource(dep_source) /\ DynamicSucceeded) =>
    LET manifest_path == Get(dep_source.manifest).path
        lockfile_path == Get(dep_source.lockfile).path
    IN /\ Returned.info = Some(ResolvedInfo("Maven", "DYNAMIC", DynamicDeps(manifest_path)))
       /\ Returned.targets = <<manifest_path>>
       /\ parser_calls = <<>>
       /\ Len(rpc_calls) = 1
       /\ \A i \in 1..Len(Get(Returned.info).deps) : Get(Returned.info).deps[i].origin # lockfile_path
       /\ \A i \in 1..Len(Returned.errors) : Returned.errors[i].kind = "DependencyResolutionError"
       /\ lockfile_path \notin SeqToSet(Returned.targets)

\* the resolver succeeded with a partial error for a lockfile whose parser
\* would have returned dependencies and a parse error
C7_Witness ==
  /\ pc = "done"
  /\ IsLockfileSource(dep_source)
  /\ DynamicSucceeded
  /\ Get(resolver)[1].errors # <<>>
  /\ parser_out[Get(dep_source.lockfile).path] = [packages |-> <<"s1">>, errors |-> <<"bad line">>]

\* C8: when a dynamic attempt on a lockfile source yields no result (a failure
\* response or no response) and a parser and an ecosystem are registered for
\* the lockfile kind, the result is (registered ecosystem, LockfileParsing, the
\* parser's dependencies) and the touched targets are exactly the lockfile.
C8_FallbackToStatic ==
  (pc = "done" /\ IsLockfileSource(dep_source) /\ DynamicFailed /\ Registered(dep_source)) =>
    /\ Returned.info = Some(ResolvedInfo(Get(ECOSYSTEM_BY_LOCKFILE_KIND(Get(dep_source.lockfile).kind)),
                                         "LOCKFILE_PARSING", StaticDeps(dep_source)))
    /\ Returned.targets = <<Get(dep_source.lockfile).path>>
    /\ parser_calls = << <<Get(dep_source.lockfile).path, Some(Get(dep_source.manifest).path)>> >>

\* the resolver answered a pom.xml request with a failure and the parser of
\* maven_dep_tree.txt returned dependencies
C8_Witness ==
  /\ pc = "done"
  /\ IsLockfileSource(dep_source)
  /\ DynamicFailed
  /\ resolver = Some(<<ResolutionError(<<"failed">>)>>)
  /\ Get(Returned.info).deps # <<>>

\* the concatenation of the dependencies of a sequence of outcomes
RECURSIVE ConcatDeps(_)
ConcatDeps(outcomes) ==
  IF Len(outcomes) = 0 THEN <<>>
  ELSE (IF IsNone(outcomes[1].info) THEN <<>> ELSE Get(outcomes[1].info).deps) \o ConcatDeps(Tail(outcomes))

\* what each nested source resolves to under the flags of the run
NestedUnderRunFlags ==
  [i \in 1..Len(dep_source.sources) |->
     ResolveSingle(dep_source.sources[i], enable_dynamic_resolution, prioritize_dependency_graph_generation)]

\* C9 (multi-lockfile merge): resolving a MultiLockfile source of which one
\* nested source resolves dynamically and another statically yields
\* resolution method Dynamic and the concatenation of the nested results, in
\* nested-source order.
C9_MultiLockfileMerge ==
  (/\ pc = "done"
   /\ dep_source.type = "MultiLockfile"
   /\ \E i, j \in 1..Len(dep_source.sources) :
        /\ ~IsNone(NestedUnderRunFlags[i].info) /\ Get(NestedUnderRunFlags[i].info).method = "DYNAMIC"
        /\ ~IsNone(NestedUnderRunFlags[j].info) /\ Get(NestedUnderRunFlags[j].info).method = "LOCKFILE_PARSING")
  => /\ ~IsNone(Returned.info)
     /\ Get(Returned.info).method = "DYNAMIC"
     /\ Get(Returned.info).deps = ConcatDeps(NestedUnderRunFlags)

\* C10: a ManifestOnly source is resolved only through the external resolver:
\* with dynamic resolution disabled the call returns no result, no error and
\* no target without calling the resolver; with it enabled a result is only
\* ever produced with resolution method Dynamic, by one resolver request; no
\* parser is called either way.
C10_ManifestOnlyDynamicOnly ==
  (pc \in {"done", "raised"} /\ dep_source.type = "ManifestOnly") =>
    /\ parser_calls = <<>>
    /\ ~enable_dynamic_resolution =>
         /\ pc = "done"
         /\ Returned = [info |-> None, errors |-> <<>>, targets |-> <<>>]
         /\ rpc_calls = <<>>
    /\ (enable_dynamic_resolution /\ pc = "done" /\ ~IsNone(Returned.info)) =>
         /\ Get(Returned.info).method = "DYNAMIC"
         /\ rpc_calls = <<dep_source>>
         /\ DynamicSucceeded

\* a lone pom.xml was left unresolved with dynamic resolution disabled although
\* the resolver would have answered with a success
C10_Witness ==
  /\ pc = "done"
  /\ dep_source.type = "ManifestOnly"
  /\ ~enable_dynamic_resolution
  /\ resolver = Some(<<ResolutionOk(<<"d1", "d2">>, <<>>)>>)
  /\ IsNone(Returned.info)

(***************************************************************************)
(* Properties of the error handling (SpecResolve).                         *)
(***************************************************************************)
\* the errors of the returned result that are resolution errors
ResolutionErrorsOf(errors) ==
  {i \in 1..Len(errors) : errors[i].kind = "DependencyResolutionError"}

\* C11: when the resolver gives no response at all, the dynamic-resolution
\* call returns no result, no errors and no targets, and nothing of the
\* failure is surfaced: a ManifestOnly source returns (None, [], []) and a
\* lockfile-based source returns what its static parse gives, with no
\* resolution error in it.
C11_AbsentResponseIsSilent ==
  (pc = "done" /\ IsNone(resolver) /\ Len(rpc_calls) > 0) =>
     /\ rpc_calls = <<dep_source>>
     /\ LET dyn == ResolveDependenciesDynamically(dep_source)
        IN ~dyn.raised /\ IsNone(dyn.info) /\ dyn.errors = <<>> /\ dyn.targets = <<>>
     /\ ResolutionErrorsOf(Returned.errors) = {}
     /\ dep_source.type = "ManifestOnly" =>
          Returned = [info |-> None, errors |-> <<>>, targets |-> <<>>]
     /\ IsLockfileSource(dep_source) =>
          LET static == ParseLockfile(dep_source, rpc_calls)
          IN Returned = [info |-> static.info, errors |-> static.errors, targets |-> static.targets]

\* a ManifestOnly source was sent to the resolver, which gave no response
C11_Witness ==
  /\ pc = "done"
  /\ IsNone(resolver)
  /\ dep_source.type = "ManifestOnly"
  /\ rpc_calls = <<dep_source>>
  /\ Returned = [info |-> None, errors |-> <<>>, targets |-> <<>>]

(***************************************************************************)
(* Properties of resolve_subprojects (SpecSubprojects).                    *)
(***************************************************************************)
\* C12 as stated: every UnresolvedSubproject produced by resolve_subprojects
\* carries a non-empty list of resolution/parse errors.
C12_UnresolvedErrorsNonEmpty ==
  \A i \in 1..Len(unresolved) : unresolved[i].resolution_errors # <<>>

\* why a resolution returns no result and no error
ReturnsNothingSilently ==
  \/ IsLockfileSource(dep_source) /\ ~Registered(dep_source)
  \/ dep_source.type = "ManifestOnly" /\ ~enable_dynamic_resolution
  \/ dep_source.type = "ManifestOnly" /\ enable_dynamic_resolution /\ IsNone(resolver)

\* C12: every UnresolvedSubproject produced by resolve_subprojects carries
\* exactly the errors its resolution returned, and that list is empty exactly
\* when the lockfile kind has no parser or no ecosystem, when the source is
\* a lone manifest and dynamic resolution is disabled, or when the resolver
\* gave no response for a lone manifest.
C12_UnresolvedCarriesReturnedErrors ==
  [][(FileResolution /\ IsNone(Returned.info)) =>
       /\ Len(unresolved') = Len(unresolved) + 1
       /\ unresolved'[Len(unresolved')].root_dir = unresolved_subprojects[rs_i].root_dir
       /\ unresolved'[Len(unresolved')].dependency_source = dep_source
       /\ unresolved'[Len(unresolved')].resolution_errors = Returned.errors
       /\ (unresolved'[Len(unresolved')].resolution_errors = <<>>) <=> ReturnsNothingSilently]_vars

\* a run has ended with an unresolved uv.lock subproject that has no error
\* and another unresolved subproject that has one
C12_Witness ==
  /\ rs_pc = "done"
  /\ \E i, j \in 1..Len(unresolved) :
       /\ unresolved[i].resolution_errors = <<>>
       /\ IsLockfileSource(unresolved[i].dependency_source)
       /\ Get(unresolved[i].dependency_source.lockfile).kind = "UvLock"
       /\ unresolved[j].resolution_errors # <<>>

\* the subprojects filed so far, resolved or not
Filed ==
  UNION {SeqToSet(resolved[e]) : e \in DOMAIN resolved} \cup SeqToSet(unresolved)

\* C13: failures are local to one subproject and never crash the run:
\* whatever the resolver answers (no response, an empty response list, a
\* failure, a success with errors) and whatever the parser returns, no
\* exception leaves resolve_subprojects, every subproject handled so far is
\* filed as resolved or unresolved with the errors of its own resolution, and
\* the run ends with all of them filed.
C13_FailuresAreLocal ==
  /\ rs_pc # "raised"
  /\ pc # "raised"
  /\ \A i \in 1..Len(resolutions) :
       \E sp \in Filed :
         /\ sp.root_dir = resolutions[i].subproject.root_dir
         /\ sp.dependency_source = resolutions[i].subproject.dependency_source
         /\ sp.resolution_errors = resolutions[i].result.errors
  /\ rs_pc = "done" => Len(resolutions) = Len(unresolved_subprojects)

\* how many entries of a list of filed subprojects are the subproject sp
TimesIn(list, sp) ==
  Cardinality({k \in 1..Len(list) :
                 list[k].root_dir = sp.root_dir /\ list[k].dependency_source = sp.dependency_source})
RECURSIVE ConcatTargets(_)
ConcatTargets(rs) ==
  IF rs = <<>> THEN <<>> ELSE rs[1].result.targets \o ConcatTargets(Tail(rs))

\* C14: every subproject whose resolution has returned appears exactly once
\* in the output: under the ecosystem its resolution returned, and nowhere
\* else, if there was a result, otherwise in the unresolved list only; the
\* target list is the concatenation, in subproject order, of the targets the
\* resolutions returned; and at the end every discovered subproject has been
\* handled, in the order find_subprojects gave.
C14_AggregationPartition ==
  /\ \A i \in 1..Len(resolutions) :
       LET sp == resolutions[i].subproject
           info == resolutions[i].result.info
       IN /\ sp = unresolved_subprojects[i]
          /\ IF IsNone(info)
             THEN /\ TimesIn(unresolved, sp) = 1
                  /\ \A e \in DOMAIN resolved : TimesIn(resolved[e], sp) = 0
             ELSE /\ TimesIn(unresolved, sp) = 0
                  /\ Get(info).ecosystem \in DOMAIN resolved
                  /\ \A e \in DOMAIN resolved :
                       TimesIn(resolved[e], sp) = IF e = Get(info).ecosystem THEN 1 ELSE 0
                  /\ \A e \in DOMAIN resolved : \A k \in 1..Len(resolved[e]) : resolved[e][k].ecosystem = e
  /\ Cardinality(Filed) = Len(resolutions)
  /\ \A e \in DOMAIN resolved : resolved[e] # <<>>
  /\ dependency_targets = ConcatTargets(resolutions)
  /\ rs_pc = "done" => Len(resolutions) = Len(unresolved_subprojects)

\* a run has ended with subprojects under two ecosystems, an unresolved one,
\* and targets
C14_Witness ==
  /\ rs_pc = "done"
  /\ {"Maven", "Npm"} \subseteq DOMAIN resolved
  /\ unresolved # <<>>
  /\ Len(dependency_targets) >= 2

(***************************************************************************)
(* Properties of the dependency graph print (SpecPrintFair).               *)
(***************************************************************************)
\* the line that starts the walk line i of the output belongs to
WalkStart(i) ==
  CHOOSE j \in 1..i : /\ gp_out[j].kind = "dep" /\ gp_out[j].indent = 0
                      /\ \A k \in (j + 1)..i : ~(gp_out[k].kind = "dep" /\ gp_out[k].indent = 0)
\* the lines printed by the walks from the Direct dependencies
WalkLines ==
  {i \in 1..Len(gp_out) :
     /\ gp_out[i].kind = "dep"
     /\ \A k \in 1..i : gp_out[k].kind # "other transitives:"}
\* line i prints a key its walk has printed before
MetAgain(i) ==
  \E j \in WalkStart(i)..(i - 1) : gp_out[j].kind = "dep" /\ gp_out[j].key = gp_out[i].key
MarkedAlreadyPrinted(i) ==
  /\ i < Len(gp_out)
  /\ gp_out[i + 1] = AlreadyPrintedLine(gp_out[i].indent)

\* within a walk no key has its children expanded twice
ExpandedAtMostOnce ==
  \A i, j \in 1..Len(gp_expanded) : i # j => gp_expanded[i] # gp_expanded[j]
\* a key is marked as already printed exactly when its walk met it before
RepeatsAreMarked ==
  \A i \in WalkLines : MetAgain(i) <=> MarkedAlreadyPrinted(i)

\* a Direct A@1 has the child B@1, whose first entry has the child A@1
WalksCycle ==
  \E i \in 1..Len(Directs(gp_mapping)) :
    LET direct == Directs(gp_mapping)[i]
    IN /\ KeyOf(direct) = DependencyChild("A", 1)
       /\ DependencyChild("B", 1) \in SeqToSet(ChildrenOf(direct))
       /\ DependencyChild("B", 1) \in MappingKeys(gp_mapping)
       /\ DependencyChild("A", 1) \in SeqToSet(ChildrenOf(GroupOf(gp_mapping, DependencyChild("B", 1))[1]))
\* the output shows A@1, under it B@1, under it A@1 marked as already printed
CyclePrinted ==
  \E i \in WalkLines :
    /\ i + 3 <= Len(gp_out)
    /\ gp_out[i] = [kind |-> "dep", key |-> DependencyChild("A", 1), indent |-> 0]
    /\ \E j \in (i + 1)..(Len(gp_out) - 2) :
         /\ WalkStart(j) = i
         /\ gp_out[j] = [kind |-> "dep", key |-> DependencyChild("B", 1), indent |-> 2]
         /\ gp_out[j + 1] = [kind |-> "dep", key |-> DependencyChild("A", 1), indent |-> 4]
         /\ gp_out[j + 2] = AlreadyPrintedLine(4)

\* C15: the depth-first print of a dependency graph terminates, on a graph
\* with the cycle A@1 -> B@1 -> A@1 reached from a Direct A@1 it ends
\* normally with the second A@1 marked as already printed, and within the
\* walk from one Direct dependency each (package, version) key has its
\* children expanded at most once, a key met again being marked as already
\* printed instead.
C15_CycleSafety ==
  /\ [](ExpandedAtMostOnce /\ RepeatsAreMarked)
  /\ <>(gp_pc \in {"done", "raised"})
  /\ WalksCycle => <>(gp_pc = "done" /\ CyclePrinted)

\* the print of a graph with the cycle has ended
C15_Witness ==
  /\ gp_pc = "done"
  /\ WalksCycle
  /\ CyclePrinted

(***************************************************************************)
(* Properties of the closest-subproject lookup (SpecClosest).              *)
(***************************************************************************)
\* dir is the path or one of its ancestors
IsSelfOrAncestor(dir, path) ==
  /\ Len(dir) <= Len(path)
  /\ \A k \in 1..Len(dir) : dir[k] = path[k]
  /\ IsAbsolute(path) => IsAbsolute(dir)
\* the candidates rooted at the path or above it
RootedAbove == {i \in 1..Len(fc_candidates) : IsSelfOrAncestor(fc_candidates[i].root_dir, fc_path)}

\* C16: when every candidate has the queried ecosystem, find_closest_subproject
\* returns none iff no candidate is rooted at the path or at an ancestor of
\* it, and otherwise returns a candidate rooted at the path or at an ancestor
\* that has the most path segments among those candidates.
C16_ClosestSubproject ==
  (fc_pc = "done" /\ \A i \in 1..Len(fc_candidates) : fc_candidates[i].ecosystem = fc_ecosystem) =>
     /\ IsNone(fc_ret) <=> RootedAbove = {}
     /\ ~IsNone(fc_ret) =>
          /\ \E i \in RootedAbove : fc_candidates[i] = Get(fc_ret)
          /\ \A i \in RootedAbove : Len(fc_candidates[i].root_dir) <= Len(Get(fc_ret).root_dir)

\* roots /repo and /repo/services/api, query /repo/services/api/src/main:
\* the /repo/services/api subproject is returned
C16_Witness ==
  /\ fc_pc = "done"
  /\ fc_path = <<"/", "repo", "services", "api", "src", "main">>
  /\ fc_candidates = <<Candidate(<<"/", "repo">>, fc_ecosystem),
                       Candidate(<<"/", "repo", "services", "api">>, fc_ecosystem)>>
  /\ fc_ret = Some(Candidate(<<"/", "repo", "services", "api">>, fc_ecosystem))

(***************************************************************************)
(* Properties of the ignore filter (SpecIgnore).                           *)
(***************************************************************************)
\* the paths and patterns the properties name
BuildPath == <<<<"/">>, <<"r">>, <<"b", "u", "i", "l", "d">>>>
UnderBuildPath == <<<<"/">>, <<"r">>, <<"b", "u", "i", "l", "d">>, <<"o", "u", "t", ".", "o">>>>
BuildPattern == <<"b", "u", "i", "l", "d", "/">>
\* the filter has ignored the path
Ignored(path) == ig_pc = "done" /\ path \in ig_removed
\* the filter has kept the path
Kept(path) == ig_pc = "done" /\ path \in ig_kept

\* C17: with the ignore pattern build/ alone, the filter ignores the
\* directory build itself and every path under it, and does not ignore a
\* regular file named build.
C17_FolderOnlyRule ==
  (ig_pc = "done" /\ ig_parsed = {BuildPattern}) =>
     /\ ig_fs[BasePath \o <<IGNORE_FILE_NAME>>].lines # <<>>
     /\ (BuildPath \in DOMAIN ig_fs /\ ig_fs[BuildPath].kind = "dir") =>
          /\ Ignored(BuildPath)
          /\ \A path \in DOMAIN ig_fs :
               (PathIsRelativeTo(path, BuildPath) /\ path # BuildPath) => Ignored(path)
     /\ (BuildPath \in DOMAIN ig_fs /\ ig_fs[BuildPath].kind = "file") => Kept(BuildPath)

LockPattern == <<"*", ".", "l", "o", "c", "k">>
ReadmePattern == <<"/", "R", "E", "A", "D", "M", "E">>
\* C18: an unanchored pattern ignores a matching path at any depth under the
\* base directory and an anchored one only from the base directory: *.lock
\* ignores x.lock and a/b/x.lock, given absolute or relative to the current
\* folder, and /README ignores README but not sub/README.
C18_AnchoringByDepth ==
  ig_pc = "done" =>
     /\ LockPattern \in ig_parsed =>
          /\ Ignored(<<<<"/">>, <<"r">>, <<"x", ".", "l", "o", "c", "k">>>>)
          /\ Ignored(<<<<"/">>, <<"r">>, <<"a">>, <<"b">>, <<"x", ".", "l", "o", "c", "k">>>>)
          /\ Ignored(<<<<"x", ".", "l", "o", "c", "k">>>>)
     /\ ReadmePattern \in ig_parsed => Ignored(<<<<"/">>, <<"r">>, <<"R", "E", "A", "D", "M", "E">>>>)
     /\ (ReadmePattern \in ig_parsed /\ ig_parsed \subseteq {ReadmePattern, LockPattern}) =>
          /\ Kept(<<<<"/">>, <<"r">>, <<"s", "u", "b">>, <<"R", "E", "A", "D", "M", "E">>>>)
          /\ Kept(<<<<"s", "u", "b">>, <<"R", "E", "A", "D", "M", "E">>>>)

\* the rule file has the two patterns, and the filter has run
C18_Witness ==
  /\ ig_pc = "done"
  /\ ig_parsed = {ReadmePattern, LockPattern}
  /\ Ignored(<<<<"/">>, <<"r">>, <<"a">>, <<"b">>, <<"x", ".", "l", "o", "c", "k">>>>)
  /\ Ignored(<<<<"/">>, <<"r">>, <<"R", "E", "A", "D", "M", "E">>>>)
  /\ Kept(<<<<"/">>, <<"r">>, <<"s", "u", "b">>, <<"R", "E", "A", "D", "M", "E">>>>)

\* some compiled pattern matches the path: one that applies to it (any
\* pattern under the base directory, a **/ one outside of it) matches its
\* matchable form
PatternMatches(path) ==
  \E pat \in ig_fnmatch :
    /\ PathIsRelativeTo(Absolute(path), BasePath) \/ StartsWith(pat, <<"*", "*", "/">>)
    /\ FnMatch(MatchablePath(Absolute(path), BasePath), pat)

\* C19 as stated: every queried path is kept iff no compiled pattern matches
\* it, the base directory being kept whatever the patterns.
C19_KeptIffNoMatch ==
  ig_pc = "done" =>
    \A path \in CandidatePaths :
      path \in ig_kept <=> (~PatternMatches(path) \/ Absolute(path) = BasePath)

\* C19: every queried path that exists is kept iff no compiled pattern
\* matches it, the base directory being kept whatever the patterns; a path
\* that does not exist is removed; and every queried path is either kept or
\* removed.
C19_KeptIffExistsAndNoMatch ==
  ig_pc = "done" =>
    /\ \A path \in CandidatePaths :
         /\ Exists(Absolute(path)) =>
              (path \in ig_kept <=> (~PatternMatches(path) \/ Absolute(path) = BasePath))
         /\ ~Exists(Absolute(path)) => path \in ig_removed
    /\ ig_kept \cup ig_removed = CandidatePaths
    /\ ig_kept \cap ig_removed = {}

\* a pattern matches the base directory, which is kept, and a file under it,
\* which is removed
C19_Witness ==
  /\ ig_pc = "done"
  /\ PatternMatches(BasePath)
  /\ BasePath \in ig_kept
  /\ <<<<"/">>, <<"r">>, <<"x", ".", "l", "o", "c", "k">>>> \in ig_removed

\* the line Parser.parse is about to handle, its comment removed
CurrentLine ==
  RemoveComments(ig_stack[Len(ig_stack)].lines[ig_stack[Len(ig_stack)].next])
\* the line starts with a colon and is neither an include nor the lone colon
IsUnknownDirective(line) ==
  StartsWith(line, <<":">>) /\ ~StartsWith(line, IncludePrefix) /\ line # <<":">>
\* parsing fails with the syntax error and gives no pattern set
ParsingFails == ig_pc' = "syntax_error" /\ ig_parsed' = {} /\ ig_stack' = <<>>
\* the line is passed over and parsing goes on
LineDropped ==
  /\ ig_pc' = "parse"
  /\ ig_parsed' = ig_parsed
  /\ ig_stack' = [ig_stack EXCEPT ![Len(ig_stack)].next = @ + 1]
\* a line with an escaped leading colon becomes a parsed pattern, and is
\* compiled to its text with the colon unescaped
EscapedColonIsPattern ==
  /\ (ParseLine /\ StartsWith(CurrentLine, <<"\\", ":">>)) =>
       ig_pc' = "parse" /\ ig_parsed' = ig_parsed \cup {CurrentLine}
  /\ FromUnprocessedPatterns =>
       \A line \in ig_parsed :
         StartsWith(line, <<"\\", ":">>) =>
           /\ DropChars(line, 1) \in ig_fnmatch'
           /\ StartsWith(DropChars(line, 1), <<":">>)

Reentered == \E i, j \in 1..Len(ig_stack) : i < j /\ ig_stack[i].file_path = ig_stack[j].file_path

\* C21 (no cycle detection on :include): once an include chain has re-entered
\* a file that is already being parsed, no step completes the parse normally
\* or reports an ignore-syntax error; the parse goes on with the file still
\* re-entered, or ends when the include chain exhausts the stack.
C21_NoCycleDetection ==
  [][Reentered => /\ ig_pc' \in {"parse", "recursion_error"}
                  /\ ig_pc' = "parse" => Reentered']_vars

\* the chain of a file that includes itself has grown up to the recursion limit
C21_Witness ==
  /\ ig_pc = "parse"
  /\ Reentered
  /\ Len(ig_stack) = RecursionLimit
  /\ \A i \in 2..Len(ig_stack) : ig_stack[i].file_path = ig_stack[2].file_path

\* the rule file of the scanned folder and the candidate files it holds
ScannedRules == ig_fs[Append(BasePath, IGNORE_FILE_NAME)].lines
ScannedFiles == {p \in EndToEndFiles : BasePath \o Spell(p) \in DOMAIN ig_fs}
\* the scenario of C22
NodeModulesScenario ==
  /\ ScannedFiles = {<<"package.json">>, <<"package-lock.json">>, <<"requirements.txt">>,
                     <<"node_modules", "pkg", "package.json">>}
  /\ ScannedRules = <<<<"n", "o", "d", "e", "_", "m", "o", "d", "u", "l", "e", "s", "/">>>>
NpmPair ==
  Subproject(<<>>, ManifestLockfileDependencySource(
                     Manifest("PackageJson", <<"package.json">>),
                     Lockfile("NpmPackageLockJson", <<"package-lock.json">>)))
PipRequirements ==
  Subproject(<<>>, LockfileOnlyDependencySource(Lockfile("PipRequirementsTxt", <<"requirements.txt">>)))

\* C22 (end to end): for the candidate files package.json, package-lock.json,
\* requirements.txt and node_modules/pkg/package.json with the ignore rule
\* node_modules/, no matcher runs before the ignore filter is done, the filter
\* removes node_modules/pkg/package.json so that no matcher is ever offered
\* it, and find_subprojects returns exactly two subprojects: the npm pair and
\* the pip requirements subproject.
C22_EndToEnd ==
  NodeModulesScenario =>
    /\ calls # <<>> => ig_pc = "done"
    /\ <<"node_modules", "pkg", "package.json">> \notin dependency_source_files
    /\ \A k \in 1..Len(calls) : <<"node_modules", "pkg", "package.json">> \notin calls[k].offered
    /\ ig_pc = "done" => /\ BasePath \o Spell(<<"node_modules", "pkg", "package.json">>) \in ig_removed
                         /\ dependency_source_files = ScannedFiles \ {<<"node_modules", "pkg", "package.json">>}
    /\ find_pc = "done" => /\ Len(unresolved_subprojects) = 2
                           /\ SeqToSet(unresolved_subprojects) = {NpmPair, PipRequirements}

\* find_subprojects has returned in the scenario of C22
C22_Witness ==
  /\ NodeModulesScenario
  /\ find_pc = "done"
  /\ Len(unresolved_subprojects) = 2

(***************************************************************************)
(* Properties of the orchestrator, continued (SpecResolve).                *)
(***************************************************************************)
\* C23: when dynamic resolution is attempted for a ManifestAndLockfile source
\* and fails with resolution errors, each of these errors, wrapped with the
\* manifest path, is in the error list that _handle_lockfile_source returns,
\* whether the fallback parse produces a result or not.
C23_DynamicErrorsSurfaced ==
  (/\ pc = "done"
   /\ dep_source.type = "ManifestLockfile"
   /\ DynamicFailed
   /\ ~IsNone(resolver))
  => \A i \in 1..Len(Get(resolver)[1].errors) :
       [kind |-> "DependencyResolutionError", reason |-> Get(resolver)[1].errors[i],
        path |-> Get(dep_source.manifest).path] \in SeqToSet(Returned.errors)

\* what each nested source of a MultiLockfile source resolves to when it is
\* resolved on its own with the default flags
NestedResults ==
  [i \in 1..Len(dep_source.sources) |-> ResolveSingle(dep_source.sources[i], TRUE, FALSE)]
\* the nested sources that produced a result
Producing == {i \in 1..Len(dep_source.sources) : ~IsNone(NestedResults[i].info)}

\* C24: a MultiLockfile source resolves to no result if and only if no nested
\* source produced a result, and otherwise the merged ecosystem is the
\* ecosystem of the last nested source, in nested-source order, that produced
\* a result.
C24_MergedEcosystem ==
  (pc = "done" /\ dep_source.type = "MultiLockfile") =>
    /\ IsNone(Returned.info) <=> Producing = {}
    /\ Producing # {} =>
         LET last == CHOOSE i \in Producing : \A j \in Producing : j <= i
         IN Get(Returned.info).ecosystem = Get(NestedResults[last].info).ecosystem

\* a Maven lockfile, then an npm lockfile, then nothing more that produces a
\* result: the merged ecosystem is Npm
C24_Witness ==
  /\ pc = "done"
  /\ dep_source.type = "MultiLockfile"
  /\ Cardinality(Producing) >= 2
  /\ Get(NestedResults[1].info).ecosystem = "Maven"
  /\ Get(Returned.info).ecosystem = "Npm"

\* the concatenation of the error lists, and of the target lists, of a
\* sequence of outcomes
RECURSIVE ConcatErrors(_)
ConcatErrors(outcomes) ==
  IF Len(outcomes) = 0 THEN <<>> ELSE outcomes[1].errors \o ConcatErrors(Tail(outcomes))
RECURSIVE ConcatOutcomeTargets(_)
ConcatOutcomeTargets(outcomes) ==
  IF Len(outcomes) = 0 THEN <<>> ELSE outcomes[1].targets \o ConcatOutcomeTargets(Tail(outcomes))

\* C25: the error list and the target list a MultiLockfile source returns are
\* the concatenations, in nested-source order, of the errors and of the
\* targets of every nested resolution, with or without a result, also when
\* the whole source resolves to no result.
C25_MultiErrorsAndTargets ==
  (pc = "done" /\ dep_source.type = "MultiLockfile") =>
    /\ Returned.errors = ConcatErrors(NestedResults)
    /\ Returned.targets = ConcatOutcomeTargets(NestedResults)

\* two nested lockfiles were parsed, with a parse error each
C25_Witness ==
  /\ pc = "done"
  /\ dep_source.type = "MultiLockfile"
  /\ Len(Returned.errors) = 2
  /\ Returned.errors[1].path # Returned.errors[2].path
  /\ Len(Returned.targets) = 2

\* the resolver was asked for the source of the run and gave at least one
\* response: a ManifestOnly source with dynamic resolution enabled, or a
\* lockfile source for which the dynamic attempt is made
DynamicAttempt ==
  /\ pc = "done"
  /\ dep_source.type \in {"ManifestOnly", "ManifestLockfile"}
  /\ rpc_calls # <<>>
  /\ ~IsNone(resolver)
\* the errors of the first response, each wrapped with the manifest path
FirstResponseErrors ==
  [i \in 1..Len(Get(resolver)[1].errors) |->
     [kind |-> "DependencyResolutionError", reason |-> Get(resolver)[1].errors[i],
      path |-> Get(dep_source.manifest).path]]

\* C26 (dynamic resolution call contract): a dynamic attempt sends one
\* request, for the one dependency source being resolved; the first response
\* alone determines the outcome, however many responses come back; a success
\* response yields its dependencies, its partial errors each wrapped with the
\* manifest path of the requested source, and the manifest path as the only
\* touched target; a failure response yields no dependencies, its errors each
\* wrapped with the manifest path, and no touched target (for a lockfile
\* source the fallback parse then follows).
C26_DynamicCallContract ==
  /\ (pc \in {"done", "raised"} /\ dep_source.type # "MultiLockfile") =>
       rpc_calls \in {<<>>, <<dep_source>>}
  /\ DynamicAttempt =>
       LET manifest_path == Get(dep_source.manifest).path
           dyn == ResolveDependenciesDynamically(dep_source)
       IN IF Get(resolver)[1].tag = "ResolutionOk"
          THEN /\ Returned.info = Some(ResolvedInfo("Maven", "DYNAMIC", DynamicDeps(manifest_path)))
               /\ Returned.errors = FirstResponseErrors
               /\ Returned.targets = <<manifest_path>>
          ELSE /\ dyn.info = None /\ dyn.errors = FirstResponseErrors /\ dyn.targets = <<>>
               /\ dep_source.type = "ManifestOnly" =>
                    Returned = [info |-> None, errors |-> FirstResponseErrors, targets |-> <<>>]

\* two responses came back for a lone pom.xml, a failure then a success: the
\* failure is the outcome
C26_Witness ==
  /\ DynamicAttempt
  /\ dep_source.type = "ManifestOnly"
  /\ resolver = Some(<<ResolutionError(<<"failed">>), ResolutionOk(<<"d1">>, <<>>)>>)
  /\ IsNone(Returned.info)
  /\ Len(Returned.errors) = 1


(***************************************************************************)
(* Properties of the dependency graph, continued (SpecPrint).              *)
(***************************************************************************)
\* the records of a list with a given key, in the order of the list
RecordsWithKey(found_deps, key) ==
  LET HasKey(dep) == KeyOf(dep) = key
  IN  SelectSeq(found_deps, HasKey)

\* how many times a record occurs in a list
Occurrences(deps, dep) == Cardinality({i \in 1..Len(deps) : deps[i] = dep})

GraphBuilt == gp_pc \notin {"idle", "build"}

\* C27: the index built by from_found_dependencies maps each (package,
\* version) key to exactly the input records with that key, in input order
\* and with duplicates kept; count() is the length of the input list and the
\* flattened sequence is a permutation of the input.
C27_GraphPreservesRecords ==
  GraphBuilt =>
    /\ MappingKeys(gp_mapping) = {KeyOf(gp_found_deps[i]) : i \in 1..Len(gp_found_deps)}
    /\ \A i, j \in 1..Len(gp_mapping) : gp_mapping[i].key = gp_mapping[j].key => i = j
    /\ \A key \in MappingKeys(gp_mapping) :
         GroupOf(gp_mapping, key) = RecordsWithKey(gp_found_deps, key)
    /\ Count(gp_mapping) = Len(gp_found_deps)
    /\ Len(IterFoundDependencies(gp_mapping)) = Len(gp_found_deps)
    /\ \A i \in 1..Len(gp_found_deps) :
         Occurrences(IterFoundDependencies(gp_mapping), gp_found_deps[i])
           = Occurrences(gp_found_deps, gp_found_deps[i])

\* a graph built from a list with two records of one key, one of them twice
\* or two different ones
C27_Witness ==
  /\ GraphBuilt
  /\ Len(gp_found_deps) = MaxDeps
  /\ \E i, j \in 1..Len(gp_found_deps) :
       /\ i < j
       /\ KeyOf(gp_found_deps[i]) = KeyOf(gp_found_deps[j])
       /\ gp_found_deps[i] # gp_found_deps[j]
       /\ Len(GroupOf(gp_mapping, KeyOf(gp_found_deps[i]))) >= 2


(***************************************************************************)
(* Properties of the token conversion (SpecToFnmatch).                     *)
(***************************************************************************)
\* the token converted
Token == CHOOSE git_pat \in ig_parsed : TRUE
Converted == ig_pc = "filter" /\ Cardinality(ig_parsed) = 1

\* a slash before any trailing slash: a slash with a non-slash after it
SlashBeforeTrailing(git_pat) ==
  \E i \in 1..Len(git_pat) : git_pat[i] = "/" /\ \E j \in (i + 1)..Len(git_pat) : git_pat[j] # "/"
FolderToken(git_pat) == git_pat[Len(git_pat)] = "/"
OnlySlashes(git_pat) == \A i \in 1..Len(git_pat) : git_pat[i] = "/"
WithoutTrailingSlash(git_pat) ==
  IF FolderToken(git_pat) THEN SubSeq(git_pat, 1, Len(git_pat) - 1) ELSE git_pat

\* the four result sets for a token X
ResultSets(git_pat, X) ==
  LET under == X \o <<"/", "*", "*">>
      deep == <<"*", "*", "/">> \o X
      deep_under == <<"*", "*", "/">> \o X \o <<"/", "*", "*">>
  IN CASE SlashBeforeTrailing(git_pat) /\ ~FolderToken(git_pat) -> {X, under}
       [] SlashBeforeTrailing(git_pat) /\ FolderToken(git_pat) -> {under}
       [] ~SlashBeforeTrailing(git_pat) /\ ~FolderToken(git_pat) -> {X, under, deep, deep_under}
       [] ~SlashBeforeTrailing(git_pat) /\ FolderToken(git_pat) -> {under, deep_under}

RECURSIVE MultiFold(_, _)
MultiFold(acc, sources) ==
  IF sources = <<>> THEN acc
  ELSE MultiFold(MultiAccumulate(acc, ResolveSingle(Head(sources), TRUE, FALSE)), Tail(sources))

\* C29: what resolve_dependency_source returns for a MultiLockfile source is
\* a function of the source alone, the same under every combination of the
\* two flags: the nested sources are resolved with the default flags, so none
\* of them is resolved dynamically.
C29_MultiIgnoresFlags ==
  dep_source.type = "MultiLockfile" =>
    /\ rpc_calls = <<>>
    /\ pc # "raised"
    /\ pc = "done" =>
         LET merged == MultiReturnValue(MultiFold(MultiStart, dep_source.sources))
         IN /\ Returned = [info |-> merged.info, errors |-> merged.errors, targets |-> merged.targets]
            /\ ~IsNone(Returned.info) => Get(Returned.info).method = "LOCKFILE_PARSING"

\* both flags are set and a nested source would be resolved dynamically on
\* its own, yet the result is the parsed one
C29_Witness ==
  /\ pc = "done"
  /\ dep_source.type = "MultiLockfile"
  /\ enable_dynamic_resolution
  /\ prioritize_dependency_graph_generation
  /\ \E i \in 1..Len(dep_source.sources) :
       /\ ~IsNone(NestedUnderRunFlags[i].info)
       /\ Get(NestedUnderRunFlags[i].info).method = "DYNAMIC"
  /\ ~IsNone(Returned.info)
  /\ Get(Returned.info).method = "LOCKFILE_PARSING"


\* the child key that the frame on top of the walk is about to look up
PendingChild ==
  LET top == gp_stack[Len(gp_stack)]
  IN  IF gp_pc = "directs" /\ gp_stack # <<>> /\ top.next <= Len(ChildrenOf(top.dep))
      THEN Some(ChildrenOf(top.dep)[top.next])
      ELSE None

\* C30: the traversal raises no error on any dependency graph: every child
\* key that a dependency reached from a Direct dependency lists has a record
\* in the index when it is expanded, also when no found dependency has that
\* key.
C30_TraversalNeverFails ==
  /\ gp_pc # "raised"
  /\ ~IsNone(PendingChild) => Get(PendingChild) \in MappingKeys(gp_mapping)
====
